---- MODULE Spec2Model ----
(***************************************************************************)
(* Model of the constraint/validation and placement engine of the NVR      *)
(* odd-one-out question generator:                                         *)
(*   - param_splits.py           sample_split, assign_split_to_indices     *)
(*   - nvr_logic_validation.py   check_derived_parameters                  *)
(*   - nvr_draw_container_svg.py random_positions,                         *)
(*                               random_positions_symmetric                *)
(*   - nvr_draw_layout.py        _scatter_positions                        *)
(*   - question-scripts/gen_template2.py  generate_question                *)
(* random.Random is modelled as a nondeterministic choice over the values  *)
(* a draw can return.  An optional argument is << >> (None) or <<v>>.      *)
(***************************************************************************)
EXTENDS Integers, Sequences, FiniteSets, TLC

VARIABLES
    \* which entry point this behaviour exercises
    fn,
    \* ---- param_splits.py ----
    pc,          \* position inside the call sequence
    n_options,   \* argument n_options
    max_values,  \* argument max_values (Optional)
    split,       \* [ok, val]: value returned by sample_split / argument of assign
    indices,     \* [ok, val]: value returned by assign_split_to_indices
    \* ---- nvr_logic_validation.py ----
    options,     \* argument options: a list of option dicts (key -> value)
    conflicts,   \* the list check_derived_parameters returns
    \* ---- placement: nvr_draw_container_svg.py, nvr_draw_layout.py ----
    count,        \* argument count (n of _scatter_positions)
    min_dist,     \* argument min_dist
    inside_check, \* argument inside_check: "none" (None) or the container's test
    bounds,       \* argument bounds <<min_x, max_x, min_y, max_y>>, << >> when None
    margin,       \* argument margin of _scatter_positions
    symmetry,     \* argument symmetry of random_positions_symmetric
    limit,        \* the attempt cap of the running loop
    positions,    \* the list of accepted centres
    attempts,     \* the loop's attempt counter
    \* ---- question-scripts/gen_template2.py generate_question ----
    shape,                \* the common container shape
    diff_attr,            \* the chosen differentiator
    correct_idx,          \* index (0-based) of the option marked correct
    option_partitions,    \* partition type per option
    option_num_sections,  \* section count per option
    option_fills,         \* list of section fills per option
    question_data,        \* the returned dict (<< >> until returned)
    \* ---- partition engine: nvr_draw_container_svg.py build_partitioned_sections ----
    partition_direction,   \* argument partition_direction
    section_count,   \* number of section bounds handed over, << >> when none were given
    fill_parts,   \* the section fills the engine emitted, in order
    partition_lines,  \* the separators the engine emitted, in order
    \* ---- rendering: gen_template2.py render_option, nvr_draw_layout.py render_diagram_to_svg ----
    seed,   \* argument seed (Optional): the seed the rendering is asked for
    root_tag,   \* tag of the diagram's root element
    svg_first,   \* outcome of the first rendering, << >> until made
    svg_second,  \* outcome of the second rendering, << >> until made
    \* ---- retry loops: gen_template2.py, gen_template3.py generate_question ----
    pool_patterns,   \* the fill patterns collected by the pattern loop of gen_template2
    valid,  \* the flag valid of gen_template3's attempt loop
    \* ---- stack layout: nvr_draw_layout.py render_stack ----
    n_children,   \* len(children) of the stack / argument n
    direction,   \* the stack's direction attribute / argument direction
    position_scale,   \* argument scale of _stack_positions, in hundredths
    stack_positions,   \* the centres _stack_positions returned, in hundredths of a viewBox unit
    scale_max,   \* the value of _stack_scale_max_in_viewbox, in ten-thousandths
    scale_draw,  \* scale_draw of render_stack, in ten-thousandths
    \* ---- array cells: nvr_draw_layout.py render_array, _layout_effective_scale ----
    array_type,   \* attribute type of the array element
    rows,   \* attribute rows
    cols,   \* attribute cols
    nested_el,   \* the element in a cell: tag and the attributes its scale depends on
    cell_scale,   \* scale: the array's own cell scale, in ten-thousandths
    nested_scale,   \* nested_scale of the cell's element, in ten-thousandths
    place_scale,  \* place_scale handed to _place_fragment, in ten-thousandths
    \* ---- array positions and mesh: nvr_draw_layout.py render_array ----
    children,   \* the array's explicit children, by tag ("shape" or "null")
    draw_mesh,   \* attribute draw_mesh
    draw_full_grid,   \* attribute draw_full_grid
    segments,  \* the mesh segments, each the pair of cell indices whose centres it joins
    \* ---- path rewriting: nvr_draw_container_svg.py _scale_path_d, _rotate_path_d ----
    path_d,   \* the path data given, as _path_d_tokenize reads it: a list of (command, numbers)
    path_arg,   \* argument scale of _scale_path_d, angle_deg of _rotate_path_d
    path_out,  \* the commands of the string returned, each with its numbers in hundredths
    \* ---- bounding box: nvr_draw_container_svg.py get_shape_bbox ----
    shape_arg,   \* argument shape: a shape key and how it is written
    vertices,   \* argument vertices, in thousandths of a viewBox unit
    bbox,  \* (x_min, x_max, y_min, y_max) returned, in thousandths of a unit
    \* ---- linear partitions: nvr_draw_container_svg.py build_partitioned_sections ----
    cuts,   \* the percentages where one section ends and the next begins, ascending
    pieces,  \* the clipped polygon of every section drawn, in sixteenths of a unit
    \* ---- a shape inside a layout: nvr_draw_layout.py _shape_to_svg_fragment ----
    parent_tag,   \* the layout whose child the shape is: stack, array or scatter
    shape_el,   \* the <shape> element: its key, its partition child and its nested layout
    fragment,  \* what _shape_to_svg_fragment returned
    \* ---- sample template 2: gen_question_template2.py ----
    option_sequences   \* the shading_sequence of every option of the sample template 2 question

splitVars == <<n_options, max_values, split, indices>>
cdpVars == <<options, conflicts>>
placeArgs == <<count, min_dist, inside_check, bounds, margin, symmetry, limit>>
placeVars == <<count, min_dist, inside_check, bounds, margin, symmetry, limit,
               positions, attempts>>
genVars == <<shape, diff_attr, correct_idx, option_partitions, option_num_sections,
             option_fills, question_data>>
partVars == <<partition_direction, section_count, fill_parts, partition_lines>>
renderVars == <<seed, root_tag, svg_first, svg_second>>
retryVars == <<pool_patterns, valid>>
stackVars == <<n_children, direction, position_scale, stack_positions, scale_max, scale_draw>>
arrayVars == <<array_type, rows, cols, nested_el, cell_scale, nested_scale, place_scale>>
meshVars == <<children, draw_mesh, draw_full_grid, segments>>
pathVars == <<path_d, path_arg, path_out>>
bboxVars == <<shape_arg, vertices, bbox>>
clipVars == <<cuts, pieces>>
fragVars == <<parent_tag, shape_el, fragment>>
sampleVars == <<option_sequences>>
vars == <<fn, pc, n_options, max_values, split, indices, options, conflicts,
          count, min_dist, inside_check, bounds, margin, symmetry, limit,
          positions, attempts,
          shape, diff_attr, correct_idx, option_partitions, option_num_sections,
          option_fills, question_data,
          partition_direction, section_count, fill_parts, partition_lines,
          seed, root_tag, svg_first, svg_second,
          pool_patterns, valid,
          n_children, direction, position_scale, stack_positions, scale_max, scale_draw,
          array_type, rows, cols, nested_el, cell_scale, nested_scale, place_scale,
          children, draw_mesh, draw_full_grid, segments,
          path_d, path_arg, path_out,
          shape_arg, vertices, bbox,
          cuts, pieces,
          parent_tag, shape_el, fragment,
          option_sequences>>

----------------------------------------------------------------------------
(* Bounds *)
MaxValuesIn == 6       \* largest max_values argument tried
MaxPart     == 3       \* largest part of a directly supplied split
MaxParts    == 3       \* most parts of a directly supplied split
MaxN        == 6       \* largest n_options passed directly to assign_split_to_indices
MaxOptions  == 5       \* longest option list passed to check_derived_parameters
MaxShapes   == 4       \* how many of the shape values an option may hold
MaxCount    == 3       \* most centres requested of a placement
MaxAttempts == 3       \* attempt cap given to a placement loop
GridHalf    == 2       \* candidate centres lie on a lattice of 2*GridHalf+1 coordinates
GridStep    == 60      \* lattice pitch, in quarter viewBox units (15 units)
MaxPool     == 2       \* a generator's value pool holds the first MaxPool entries of its list
MaxPatternTries == 2   \* passes of the loop that collects fill patterns
MaxVarySections == 1
MaxSections == 6        \* most sections handed to the partition engine   \* leading sections whose fill is drawn freely; the rest draw the first fill

None == << >>
Some(v) == <<v>>

Min2(a, b) == IF a <= b THEN a ELSE b
Max2(a, b) == IF a >= b THEN a ELSE b

RECURSIVE SumSeq(_)
SumSeq(s) == IF s = << >> THEN 0 ELSE Head(s) + SumSeq(Tail(s))

Range(s) == {s[i] : i \in DOMAIN s}

\* a raised exception / a returned value
Raised == [ok |-> FALSE, val |-> << >>]
Returned(v) == [ok |-> TRUE, val |-> v]

----------------------------------------------------------------------------
(* param_splits.py *)

\* the table with the isolating split left in (a plausible slip)
ALLOWED_SPLITS_with_isolating ==
    [n \in {4, 5, 6} |->
        CASE n = 4 -> << <<2, 2>>, <<2, 1, 1>>, <<3, 1>> >>
          [] n = 5 -> << <<2, 3>>, <<4, 1>>, <<3, 1, 1>>, <<2, 2, 1>>, <<2, 1, 1, 1>>,
                         <<1, 1, 1, 1, 1>> >>
          [] n = 6 -> << <<3, 3>>, <<2, 2, 2>>, <<4, 2>>, <<4, 1, 1>>, <<3, 2, 1>>,
                         <<3, 1, 1, 1>>, <<2, 2, 1, 1>>, <<2, 1, 1, 1, 1>>,
                         <<1, 1, 1, 1, 1, 1>>, <<5, 1>> >>]

ALLOWED_SPLITS ==
    [n \in {4, 5, 6} |->
        CASE n = 4 -> << <<2, 2>>, <<2, 1, 1>> >>
          [] n = 5 -> << <<2, 3>>, <<3, 1, 1>>, <<2, 2, 1>>, <<2, 1, 1, 1>>,
                         <<1, 1, 1, 1, 1>> >>
          [] n = 6 -> << <<3, 3>>, <<2, 2, 2>>, <<4, 2>>, <<4, 1, 1>>, <<3, 2, 1>>,
                         <<3, 1, 1, 1>>, <<2, 2, 1, 1>>, <<2, 1, 1, 1, 1>>,
                         <<1, 1, 1, 1, 1, 1>> >>]

AllowedSplitsFor(n) ==
    IF n \in DOMAIN ALLOWED_SPLITS THEN ALLOWED_SPLITS[n] ELSE << >>

\* the set of outcomes of sample_split(n, rng, max_values)
sample_split(n, maxv) ==
    LET splits == AllowedSplitsFor(n) IN
    IF splits = << >> THEN {Raised}
    ELSE LET filtered == IF maxv # None
                         THEN SelectSeq(splits, LAMBDA s : Len(s) <= maxv[1])
                         ELSE splits
         IN IF filtered = << >> THEN {Raised}
            ELSE {Returned(filtered[i]) : i \in DOMAIN filtered}

\* the repetition below with one copy too few of every value (off-by-one slip)
RECURSIVE RepeatShort(_, _)
RepeatShort(v, cnt) == IF cnt <= 1 THEN << >> ELSE <<v>> \o RepeatShort(v, cnt - 1)

\* indices.extend([val_idx] * count) for each (val_idx, count) of the split
RECURSIVE Repeat(_, _)
Repeat(v, cnt) == IF cnt <= 0 THEN << >> ELSE <<v>> \o Repeat(v, cnt - 1)

RECURSIVE BuildIndices(_, _)
BuildIndices(s, val_idx) ==
    IF s = << >> THEN << >>
    ELSE Repeat(val_idx, Head(s)) \o BuildIndices(Tail(s), val_idx + 1)

Swap(x, i, j) == [x EXCEPT ![i] = x[j], ![j] = x[i]]

\* rng.shuffle: Fisher-Yates, for i = len..2 swap x[i] with x[j], j drawn in 1..i
RECURSIVE ShuffleFrom(_, _)
ShuffleFrom(S, i) ==
    IF i < 2 THEN S
    ELSE ShuffleFrom({Swap(x, i, j) : x \in S, j \in 1..i}, i - 1)

Shuffle(x) == ShuffleFrom({x}, Len(x))

\* the set of outcomes of assign_split_to_indices(split, n_options, rng)
assign_split_to_indices(s, n) ==
    IF SumSeq(s) # n THEN {Raised}
    ELSE {Returned(r) : r \in Shuffle(BuildIndices(s, 0))}

\* splits a caller can pass directly
RECURSIVE SeqsUpTo(_, _)
SeqsUpTo(S, k) ==
    IF k = 0 THEN {<< >>}
    ELSE LET shorter == SeqsUpTo(S, k - 1)
         IN shorter \cup {Append(s, v) : s \in {t \in shorter : Len(t) = k - 1}, v \in S}

DirectSplits == SeqsUpTo(0..MaxPart, MaxParts)

SplitsIdle ==
    /\ n_options = 0
    /\ max_values = None
    /\ split = Raised
    /\ indices = Raised

CdpIdle ==
    /\ options = << >>
    /\ conflicts = << >>

GenIdle ==
    /\ shape = ""
    /\ diff_attr = ""
    /\ correct_idx = 0
    /\ option_partitions = << >>
    /\ option_num_sections = << >>
    /\ option_fills = << >>
    /\ question_data = << >>

SampleIdle ==
    /\ option_sequences = << >>

FragIdle ==
    /\ parent_tag = ""
    /\ shape_el = [key |-> "", partition |-> << >>, sections |-> 0, nested |-> ""]
    /\ fragment = ""

ClipIdle ==
    /\ cuts = << >>
    /\ pieces = << >>

BboxIdle ==
    /\ shape_arg = [key |-> "", written |-> ""]
    /\ vertices = << >>
    /\ bbox = << >>

PathIdle ==
    /\ path_d = << >>
    /\ path_arg = 0
    /\ path_out = << >>

MeshIdle ==
    /\ children = << >>
    /\ draw_mesh = FALSE
    /\ draw_full_grid = FALSE
    /\ segments = << >>

ArrayIdle ==
    /\ array_type = ""
    /\ rows = 0
    /\ cols = 0
    /\ nested_el = [tag |-> "", rows |-> 0, cols |-> 0, n |-> 0, direction |-> ""]
    /\ cell_scale = 0
    /\ nested_scale = 0
    /\ place_scale = 0

StackIdle ==
    /\ n_children = 0
    /\ direction = ""
    /\ position_scale = 0
    /\ stack_positions = << >>
    /\ scale_max = 0
    /\ scale_draw = 0

RetryIdle ==
    /\ pool_patterns = << >>
    /\ valid = FALSE

RenderIdle ==
    /\ seed = << >>
    /\ root_tag = ""
    /\ svg_first = << >>
    /\ svg_second = << >>

PartIdle ==
    /\ partition_direction = ""
    /\ section_count = << >>
    /\ fill_parts = << >>
    /\ partition_lines = << >>

PlaceIdle ==
    /\ count = 0
    /\ min_dist = 0
    /\ inside_check = "none"
    /\ bounds = << >>
    /\ margin = 0
    /\ symmetry = "none"
    /\ limit = 0
    /\ positions = << >>
    /\ attempts = 0

InitSplits ==
    /\ fn \in {"sample_split", "assign_split_to_indices"}
    /\ pc = "start"
    /\ n_options \in 0..MaxN
    /\ max_values \in {None} \cup {Some(k) : k \in 0..MaxValuesIn}
    /\ split = Raised
    /\ indices = Raised
    /\ CdpIdle
    /\ PlaceIdle
    /\ GenIdle
    /\ SampleIdle
    /\ FragIdle
    /\ ClipIdle
    /\ BboxIdle
    /\ PathIdle
    /\ MeshIdle
    /\ ArrayIdle
    /\ StackIdle
    /\ RetryIdle
    /\ RenderIdle
    /\ PartIdle

\* split = sample_split(n_options, rng, max_values)
CallSampleSplit ==
    /\ fn = "sample_split"
    /\ pc = "start"
    /\ \E r \in sample_split(n_options, max_values) :
          /\ split' = r
          /\ pc' = IF r.ok THEN "sampled" ELSE "raised"
    /\ UNCHANGED <<fn, n_options, max_values, indices, cdpVars, placeVars, genVars, partVars, renderVars, retryVars, stackVars, arrayVars, meshVars, pathVars, bboxVars, clipVars, fragVars, sampleVars>>

\* indices = assign_split_to_indices(split, n_options, rng) on the sampled split
CallAssignSampled ==
    /\ fn = "sample_split"
    /\ pc = "sampled"
    /\ \E r \in assign_split_to_indices(split.val, n_options) :
          /\ indices' = r
          /\ pc' = IF r.ok THEN "assigned" ELSE "raised"
    /\ UNCHANGED <<fn, n_options, max_values, split, cdpVars, placeVars, genVars, partVars, renderVars, retryVars, stackVars, arrayVars, meshVars, pathVars, bboxVars, clipVars, fragVars, sampleVars>>

\* assign_split_to_indices called with a split of the caller's own
CallAssignDirect ==
    /\ fn = "assign_split_to_indices"
    /\ pc = "start"
    /\ max_values = None
    /\ \E s \in DirectSplits :
          /\ split' = Returned(s)
          /\ \E r \in assign_split_to_indices(s, n_options) :
                /\ indices' = r
                /\ pc' = IF r.ok THEN "assigned" ELSE "raised"
    /\ UNCHANGED <<fn, n_options, max_values, cdpVars, placeVars, genVars, partVars, renderVars, retryVars, stackVars, arrayVars, meshVars, pathVars, bboxVars, clipVars, fragVars, sampleVars>>

NextSplits == CallSampleSplit \/ CallAssignSampled \/ CallAssignDirect

SpecSplits == InitSplits /\ [][NextSplits]_vars

----------------------------------------------------------------------------
(* Claims on param_splits.py *)

\* C6: sample_split never returns the two-part split of n-1 and 1 (for 5
\* options never (4,1) nor (1,4)), whatever the draw and whatever max_values.
Thm_C6_NoIsolatingSplit ==
    (fn = "sample_split" /\ pc \in {"sampled", "assigned"}) =>
        /\ split.val # <<n_options - 1, 1>>
        /\ split.val # <<1, n_options - 1>>

\* a two-part split was returned for 5 options under a max_values of 2
Wit_C6_TwoPartSplitOfFive ==
    /\ fn = "sample_split" /\ pc = "sampled"
    /\ n_options = 5 /\ max_values = Some(2)
    /\ split.ok /\ Len(split.val) = 2

CountOf(s, v) == Cardinality({k \in DOMAIN s : s[k] = v})

\* C7: when the parts of the split sum to n, the returned list has length n
\* and value index i occurs exactly split[i] times, for every shuffle.
Thm_C7_HistogramEqualsSplit ==
    (pc = "assigned" /\ fn \in {"sample_split", "assign_split_to_indices"}) =>
        /\ indices.ok
        /\ Len(indices.val) = n_options
        /\ \A k \in DOMAIN indices.val : indices.val[k] \in 0..(Len(split.val) - 1)
        /\ \A i \in DOMAIN split.val : CountOf(indices.val, i - 1) = split.val[i]

\* a 2-2-1 split was assigned and the shuffle moved the values out of order
Wit_C7_ShuffledAssignment ==
    /\ pc = "assigned" /\ indices.ok
    /\ split.val = <<2, 2, 1>>
    /\ indices.val = <<2, 0, 1, 0, 1>>

----------------------------------------------------------------------------
(* nvr_logic_validation.py *)

NoneVal == "None"

\* shape values an option can hold (gen_template3.py COMMON_SHAPES)
COMMON_SHAPES_T3 == <<"circle", "square", "triangle", "pentagon", "hexagon",
                      "star", "cross", "diamond">>

ShapeValues == {COMMON_SHAPES_T3[i] : i \in 1..Min2(MaxShapes, Len(COMMON_SHAPES_T3))}

\* counts returned by the derived extractors, as dict values
CountValue == <<"0", "1", "2", "3">>

\* extractors, in dict order: the local property  lambda o: o[k]  and the
\* derived count  lambda o: sum(1 for k in o if k.startswith("shape") and o[k] == s)
extractors == <<"shape_0", "total_circle">>

IsShapeKey(k) == k \in {"shape_0"}

\* func(opt): the value, or the exception (KeyError) the lookup raises
Extract(name, o) ==
    IF name = "total_circle"
    THEN Returned(CountValue[1 + Cardinality({k \in DOMAIN o : IsShapeKey(k) /\ o[k] = "circle"})])
    ELSE IF name \in DOMAIN o THEN Returned(o[name]) ELSE Raised

\* Counter(values).items(): the distinct values in first-seen order
CounterKeys(values) ==
    LET firsts == {i \in DOMAIN values : \A j \in 1..(i - 1) : values[j] # values[i]}
        idx == SelectSeq([i \in DOMAIN values |-> i], LAMBDA i : i \in firsts)
    IN [k \in DOMAIN idx |-> values[idx[k]]]

\* the target with one option too few counted as "the rest" (off-by-one slip)
SplitTargetCount_short(n) == n - 2

\* split_target_count = n - 1
SplitTargetCount(n) == n - 1

\* has_common_rule = any(c == split_target_count for c in counts.values())
HasCommonRule(values, split_target_count) ==
    \E v \in Range(values) : CountOf(values, v) = split_target_count

\* the conflicts one extractor contributes
ConflictsFor(name, opts) ==
    LET n == Len(opts)
        split_target_count == SplitTargetCount(n)
        extracted == [i \in DOMAIN opts |-> Extract(name, opts[i])]
    IN IF \E i \in DOMAIN opts : ~extracted[i].ok
       THEN << >>                                   \* except Exception: continue
       ELSE
        LET values == [i \in DOMAIN opts |-> extracted[i].val]
            keys == CounterKeys(values)
            ones == SelectSeq(keys, LAMBDA v : CountOf(values, v) = 1)
            odd_val == IF ones = << >> THEN NoneVal ELSE Head(ones)
            commons == SelectSeq(keys, LAMBDA v : CountOf(values, v) = split_target_count)
            odd_indices == SelectSeq([i \in DOMAIN values |-> i], LAMBDA i : values[i] = odd_val)
        IN IF HasCommonRule(values, split_target_count) /\ odd_val # NoneVal
           THEN [k \in DOMAIN odd_indices |->
                    [property |-> name,
                     answer_index |-> odd_indices[k] - 1,
                     value |-> odd_val,
                     common_value |-> Head(commons)]]
           ELSE << >>

RECURSIVE check_derived_parameters_from(_, _)
check_derived_parameters_from(opts, names) ==
    IF names = << >> THEN << >>
    ELSE ConflictsFor(Head(names), opts) \o check_derived_parameters_from(opts, Tail(names))

check_derived_parameters(opts) == check_derived_parameters_from(opts, extractors)

\* an option dict: the key "shape_0" is present with a value or None, or absent
OptionDicts ==
    {[k \in {"shape_0"} |-> v] : v \in ShapeValues \cup {NoneVal}} \cup {[k \in {} |-> NoneVal]}

InitCdp ==
    /\ fn = "check_derived_parameters"
    /\ pc = "start"
    /\ \E n \in 2..MaxOptions : options \in [1..n -> OptionDicts]
    /\ conflicts = << >>
    /\ SplitsIdle
    /\ PlaceIdle
    /\ GenIdle
    /\ SampleIdle
    /\ FragIdle
    /\ ClipIdle
    /\ BboxIdle
    /\ PathIdle
    /\ MeshIdle
    /\ ArrayIdle
    /\ StackIdle
    /\ RetryIdle
    /\ RenderIdle
    /\ PartIdle

\* conflicts = check_derived_parameters(options, extractors)
CallCheckDerivedParameters ==
    /\ fn = "check_derived_parameters"
    /\ pc = "start"
    /\ conflicts' = check_derived_parameters(options)
    /\ pc' = "returned"
    /\ UNCHANGED <<fn, options, splitVars, placeVars, genVars, partVars, renderVars, retryVars, stackVars, arrayVars, meshVars, pathVars, bboxVars, clipVars, fragVars, sampleVars>>

NextCdp == CallCheckDerivedParameters

SpecCdp == InitCdp /\ [][NextCdp]_vars

\* the values of the local property over the options (all keys present)
HasKey(o) == "shape_0" \in DOMAIN o
AllHaveKey == \A i \in DOMAIN options : HasKey(options[i])
ConflictsOn(name) == SelectSeq(conflicts, LAMBDA c : c.property = name)

\* option i holds a value no other option holds, the others all agree
IsolatedAt(i) ==
    /\ AllHaveKey
    /\ \A j \in DOMAIN options : j # i => options[j]["shape_0"] # options[i]["shape_0"]
    /\ \A j, k \in DOMAIN options \ {i} : options[j]["shape_0"] = options[k]["shape_0"]

\* C4: on five options whose values for P are four equal and one different,
\* exactly one conflict is reported for P and it isolates the different option.
Claim_C4_FourOneReported ==
    (fn = "check_derived_parameters" /\ pc = "returned" /\ Len(options) = 5) =>
        \A i \in DOMAIN options :
            IsolatedAt(i) =>
                /\ Len(ConflictsOn("shape_0")) = 1
                /\ ConflictsOn("shape_0")[1].answer_index = i - 1

\* C5: a property none of whose values is shared by exactly N-1 of the N
\* options gets no conflict.
Thm_C5_NoConflictWithoutCommonRule ==
    (fn = "check_derived_parameters" /\ pc = "returned" /\ AllHaveKey) =>
        ((~ \E i \in DOMAIN options :
               Cardinality({j \in DOMAIN options :
                               options[j]["shape_0"] = options[i]["shape_0"]})
                   = Len(options) - 1)
            => ConflictsOn("shape_0") = << >>)

\* a 2-2-1 distribution was scanned
Wit_C5_TwoTwoOneScanned ==
    /\ fn = "check_derived_parameters" /\ pc = "returned"
    /\ Len(options) = 5 /\ AllHaveKey
    /\ [i \in 1..5 |-> options[i]["shape_0"]]
          = <<"circle", "circle", "square", "square", "triangle">>
    /\ ConflictsOn("shape_0") = << >>

\* C26 as stated: check_derived_parameters never leaves a property out
\* silently: when an extractor fails on an option the failure reaches the
\* caller, so a call that returns has evaluated every extractor on every option.
Claim_C26_ExtractorFailureSurfaced ==
    (fn = "check_derived_parameters" /\ pc = "returned") =>
        \A k \in DOMAIN extractors : \A i \in DOMAIN options :
            Extract(extractors[k], options[i]).ok

----------------------------------------------------------------------------
(* Placement: nvr_draw_container_svg.py and nvr_draw_layout.py.             *)
(* Lengths are in quarter viewBox units, so the viewBox is 0..400 and the   *)
(* constants with a fractional part (6.25, 19.25, 77.75) are integers.      *)
(* hypot(dx, dy) >= d is compared as dx*dx + dy*dy >= d*d.                  *)

VIEWBOX_SIZE == 400                 \* 100 viewBox units
CENTRE == 200                       \* 50.0
CELL_HALF == 25                     \* 6.25
BORDER_MARGIN == 4                  \* 1.0
MIN_CENTRE_TO_CENTRE == 48          \* 12.0
MIN_CENTRE == 48 + CELL_HALF + BORDER_MARGIN      \* 12 + CELL_HALF + BORDER_MARGIN
MAX_CENTRE == 340 - CELL_HALF - BORDER_MARGIN     \* 85 - CELL_HALF - BORDER_MARGIN
MIN_DISTANCE == MIN_CENTRE_TO_CENTRE
CIRCLE_RADIUS == 140                \* 35.0

\* a float result rounded to the nearest representable value, ties to the even
\* significand.  Floats are modelled with a significand of 8 bits: below 64.0
\* (256 quarter units) every model coordinate is representable, from 64.0 up
\* to 128.0 only every second one (the spacing doubles, as it does for
\* float64 between 2^-47 and 2^-46).
Fl(v) ==
    IF v >= 256 /\ v % 2 = 1
    THEN IF ((v + 1) \div 2) % 2 = 0 THEN v + 1 ELSE v - 1
    ELSE v

\* candidate coordinates a uniform draw is taken from
Coords == {CENTRE + k * GridStep : k \in (0 - GridHalf)..GridHalf}

\* rng.uniform(a, b): a + (b - a) * random(), between the two ends in either order
Uniform(a, b) == {c \in Coords : Min2(a, b) <= c /\ c <= Max2(a, b)}

\* rng.uniform over ends given doubled (an end of 50 - min_dist/2); the draws
\* of the pair loop are taken one coordinate step finer than the lattice
FineCoords == {Fl(c - o) : c \in Coords, o \in {0, 1}}
Uniform2(a2, b2) == {c \in FineCoords : Min2(a2, b2) <= 2 * c /\ 2 * c <= Max2(a2, b2)}

Abs(x) == IF x < 0 THEN 0 - x ELSE x

DistSq(a, b) == (a[1] - b[1]) * (a[1] - b[1]) + (a[2] - b[2]) * (a[2] - b[2])

\* distance(a, b) >= d
FarEnough(a, b, d) == DistSq(a, b) >= d * d

\* inside_check(cx, cy) of main(): the circle container with the CELL_HALF margin
InsideCheck(name, p) ==
    IF name = "circle"
    THEN DistSq(p, <<CENTRE, CENTRE>>) <= (CIRCLE_RADIUS - CELL_HALF) * (CIRCLE_RADIUS - CELL_HALF)
    ELSE TRUE

CircleBounds == <<CENTRE - CIRCLE_RADIUS, CENTRE + CIRCLE_RADIUS,
                  CENTRE - CIRCLE_RADIUS, CENTRE + CIRCLE_RADIUS>>

\* min_x, max_x, min_y, max_y of random_positions
EffectiveBounds(b) ==
    IF b # << >> THEN b ELSE <<MIN_CENTRE, MAX_CENTRE, MIN_CENTRE, MAX_CENTRE>>

\* accept(cx, cy) with the distance test left out (slip)
Accept_noDistance(p, name, placed, d) ==
    ~(name # "none" /\ ~InsideCheck(name, p))

\* accept(cx, cy) of random_positions
Accept(p, name, placed, d) ==
    IF name # "none" /\ ~InsideCheck(name, p) THEN FALSE
    ELSE \A i \in DOMAIN placed : FarEnough(p, placed[i], d)

\* next_point() of random_positions (no sample_point)
NextPoint(b) ==
    LET eb == EffectiveBounds(b)
    IN {<<cx, cy>> : cx \in Uniform(eb[1], eb[2]), cy \in Uniform(eb[3], eb[4])}

MinDists == {MIN_DISTANCE, 120}     \* 12.0 (default) and 30.0

InitPlacement ==
    /\ fn \in {"random_positions", "_scatter_positions"}
    /\ pc = "loop"
    /\ count \in 1..MaxCount
    /\ min_dist \in MinDists
    /\ limit = MaxAttempts
    /\ positions = << >>
    /\ attempts = 0
    /\ symmetry = "none"
    /\ IF fn = "random_positions"
       THEN /\ margin = 0
            /\ \/ inside_check = "none" /\ bounds = << >>
               \/ inside_check = "circle" /\ bounds = CircleBounds
       ELSE /\ margin \in {20, 80}          \* 5.0 and 20.0
            /\ inside_check = "none"
            /\ bounds = << >>
    /\ SplitsIdle
    /\ CdpIdle
    /\ GenIdle
    /\ SampleIdle
    /\ FragIdle
    /\ ClipIdle
    /\ BboxIdle
    /\ PathIdle
    /\ MeshIdle
    /\ ArrayIdle
    /\ StackIdle
    /\ RetryIdle
    /\ RenderIdle
    /\ PartIdle

\* one pass of  while len(positions) < count and attempts < limit
RandomPositionsAttempt ==
    /\ fn = "random_positions"
    /\ pc = "loop"
    /\ Len(positions) < count /\ attempts < limit
    /\ \E p \in NextPoint(bounds) :
          positions' = IF Accept(p, inside_check, positions, min_dist)
                       THEN Append(positions, p) ELSE positions
    /\ attempts' = attempts + 1
    /\ UNCHANGED <<fn, pc, placeArgs, splitVars, cdpVars, genVars, partVars, renderVars, retryVars, stackVars, arrayVars, meshVars, pathVars, bboxVars, clipVars, fragVars, sampleVars>>

\* the loop has ended: raise SystemExit when short, else return positions
RandomPositionsExit ==
    /\ fn = "random_positions"
    /\ pc = "loop"
    /\ ~(Len(positions) < count /\ attempts < limit)
    /\ pc' = IF Len(positions) < count THEN "raised" ELSE "returned"
    /\ UNCHANGED <<fn, placeVars, splitVars, cdpVars, genVars, partVars, renderVars, retryVars, stackVars, arrayVars, meshVars, pathVars, bboxVars, clipVars, fragVars, sampleVars>>

\* the loose grid _scatter_positions falls back to
FallbackPoint(placed, m) ==
    LET row == Len(placed) \div 4
        col == Len(placed) % 4
    IN << m + ((VIEWBOX_SIZE - 2 * m) * (col + 1)) \div 5,
          m + ((VIEWBOX_SIZE - 2 * m) * (row + 1)) \div 3 >>

\* one pass of the inner  for _ in range(max_attempts)  of _scatter_positions
ScatterPositionsAttempt ==
    /\ fn = "_scatter_positions"
    /\ pc = "loop"
    /\ Len(positions) < count /\ attempts < limit
    /\ \E cx \in Uniform(margin, VIEWBOX_SIZE - margin),
          cy \in Uniform(margin, VIEWBOX_SIZE - margin) :
          IF \A i \in DOMAIN positions : FarEnough(<<cx, cy>>, positions[i], min_dist)
          THEN positions' = Append(positions, <<cx, cy>>) /\ attempts' = 0
          ELSE positions' = positions /\ attempts' = attempts + 1
    /\ UNCHANGED <<fn, pc, placeArgs, splitVars, cdpVars, genVars, partVars, renderVars, retryVars, stackVars, arrayVars, meshVars, pathVars, bboxVars, clipVars, fragVars, sampleVars>>

\* the inner loop ran out: for ... else places the centre on the loose grid
ScatterPositionsFallback ==
    /\ fn = "_scatter_positions"
    /\ pc = "loop"
    /\ Len(positions) < count /\ attempts = limit
    /\ positions' = Append(positions, FallbackPoint(positions, margin))
    /\ attempts' = 0
    /\ UNCHANGED <<fn, pc, placeArgs, splitVars, cdpVars, genVars, partVars, renderVars, retryVars, stackVars, arrayVars, meshVars, pathVars, bboxVars, clipVars, fragVars, sampleVars>>

\* return positions
ScatterPositionsReturn ==
    /\ fn = "_scatter_positions"
    /\ pc = "loop"
    /\ Len(positions) = count
    /\ pc' = "returned"
    /\ UNCHANGED <<fn, placeVars, splitVars, cdpVars, genVars, partVars, renderVars, retryVars, stackVars, arrayVars, meshVars, pathVars, bboxVars, clipVars, fragVars, sampleVars>>

NextPlacement ==
    \/ RandomPositionsAttempt
    \/ RandomPositionsExit
    \/ ScatterPositionsAttempt
    \/ ScatterPositionsFallback
    \/ ScatterPositionsReturn

SpecPlacement == InitPlacement /\ [][NextPlacement]_vars

PairwiseApart(placed, d) ==
    \A i, j \in DOMAIN placed : i < j => DistSq(placed[i], placed[j]) >= d * d

\* C8: a scatter placement that cannot place the requested number within
\* its attempt cap fails; it never returns fewer than N centres and never
\* returns centres closer than the minimum distance.
Claim_C8_ExhaustionFails ==
    (fn \in {"random_positions", "_scatter_positions"} /\ pc = "returned") =>
        /\ Len(positions) = count
        /\ PairwiseApart(positions, min_dist)

\* C9: whenever random_positions returns, it returns exactly count centres,
\* every two at least min_dist apart, each passing inside_check.
Thm_C9_RandomPositionsResult ==
    (fn = "random_positions" /\ pc = "returned") =>
        /\ Len(positions) = count
        /\ PairwiseApart(positions, min_dist)
        /\ \A i \in DOMAIN positions : InsideCheck(inside_check, positions[i])

\* two centres were returned inside the circle, one attempt having been rejected
Wit_C9_TwoCentresAfterRejection ==
    /\ fn = "random_positions" /\ pc = "returned"
    /\ inside_check = "circle" /\ min_dist = 120
    /\ count = 2 /\ Len(positions) = 2 /\ attempts = 3

----------------------------------------------------------------------------
(* Symmetric scatter: nvr_draw_container_svg.py random_positions_symmetric *)

Symmetries == {"vertical", "horizontal", "diagonal_slash", "diagonal_backslash"}

\* vertical reflection taken for the horizontal one (slip)
_mirror_point_swapped(p, sym) ==
    CASE sym = "vertical" -> <<p[1], Fl(VIEWBOX_SIZE - p[2])>>
      [] sym = "horizontal" -> <<Fl(VIEWBOX_SIZE - p[1]), p[2]>>
      [] sym = "diagonal_slash" -> <<p[2], p[1]>>
      [] sym = "diagonal_backslash" -> <<Fl(VIEWBOX_SIZE - p[2]), Fl(VIEWBOX_SIZE - p[1])>>
      [] OTHER -> p

_mirror_point(p, sym) ==
    CASE sym = "vertical" -> <<Fl(VIEWBOX_SIZE - p[1]), p[2]>>
      [] sym = "horizontal" -> <<p[1], Fl(VIEWBOX_SIZE - p[2])>>
      [] sym = "diagonal_slash" -> <<p[2], p[1]>>
      [] sym = "diagonal_backslash" -> <<Fl(VIEWBOX_SIZE - p[2]), Fl(VIEWBOX_SIZE - p[1])>>
      [] OTHER -> p

\* _distance_from_symmetry_line(x, y, symmetry) < d / 2.0, with the diagonal
\* distance |x - y| / sqrt(2) compared squared
CloserToLineThanHalf(p, sym, d) ==
    CASE sym = "vertical" -> 2 * Abs(p[1] - CENTRE) < d
      [] sym = "horizontal" -> 2 * Abs(p[2] - CENTRE) < d
      [] sym = "diagonal_slash" -> 2 * (p[1] - p[2]) * (p[1] - p[2]) < d * d
      [] sym = "diagonal_backslash" ->
            2 * (p[1] + p[2] - VIEWBOX_SIZE) * (p[1] + p[2] - VIEWBOX_SIZE) < d * d
      [] OTHER -> 0 < d

_in_canonical_half(p, sym) ==
    CASE sym = "vertical" -> p[1] <= CENTRE
      [] sym = "horizontal" -> p[2] <= CENTRE
      [] sym = "diagonal_slash" -> p[1] <= p[2]
      [] sym = "diagonal_backslash" -> p[1] + p[2] <= VIEWBOX_SIZE
      [] OTHER -> TRUE

\* _canonical_half_bounds_for_pairs, every end doubled so that
\* 50 - min_dist / 2 stays an integer
_canonical_half_bounds_for_pairs(b, sym, d) ==
    CASE sym = "vertical" -> <<2 * b[1], 2 * CENTRE - d, 2 * b[3], 2 * b[4]>>
      [] sym = "horizontal" -> <<2 * b[1], 2 * b[2], 2 * b[3], 2 * CENTRE - d>>
      [] OTHER -> <<2 * b[1], 2 * b[2], 2 * b[3], 2 * b[4]>>

\* accept_pair(cx, cy) of random_positions_symmetric
accept_pair(p, sym, name, placed, d) ==
    LET m == _mirror_point(p, sym) IN
    IF ~_in_canonical_half(p, sym) THEN FALSE
    ELSE IF ~InsideCheck(name, p) THEN FALSE
    ELSE IF ~InsideCheck(name, m) THEN FALSE
    ELSE IF p = m
         THEN \A i \in DOMAIN placed : FarEnough(p, placed[i], d)
    ELSE IF CloserToLineThanHalf(p, sym, d) THEN FALSE
    ELSE \A i \in DOMAIN placed : FarEnough(p, placed[i], d) /\ FarEnough(m, placed[i], d)

\* the candidates with x drawn freely for the vertical axis too (slip)
OnLineCandidates_anyX(sym, b) ==
    CASE sym = "vertical" -> {<<x, y>> : x \in Uniform(b[1], b[2]), y \in Uniform(b[3], b[4])}
      [] sym = "horizontal" -> {<<x, CENTRE>> : x \in Uniform(b[1], b[2])}
      [] sym = "diagonal_slash" ->
            {<<t, t>> : t \in Uniform(Max2(b[1], b[3]), Min2(b[2], b[4]))}
      [] OTHER ->
            {<<t, VIEWBOX_SIZE - t>> :
                t \in Uniform(Max2(b[1], VIEWBOX_SIZE - b[4]), Min2(b[2], VIEWBOX_SIZE - b[3]))}

\* the candidates one pass of _sample_on_symmetry_line draws from
OnLineCandidates(sym, b) ==
    CASE sym = "vertical" -> {<<CENTRE, y>> : y \in Uniform(b[3], b[4])}
      [] sym = "horizontal" -> {<<x, CENTRE>> : x \in Uniform(b[1], b[2])}
      [] sym = "diagonal_slash" ->
            {<<t, t>> : t \in Uniform(Max2(b[1], b[3]), Min2(b[2], b[4]))}
      [] OTHER ->
            {<<t, VIEWBOX_SIZE - t>> :
                t \in Uniform(Max2(b[1], VIEWBOX_SIZE - b[4]), Min2(b[2], VIEWBOX_SIZE - b[3]))}

\* the outcomes of _sample_on_symmetry_line: the first candidate that is inside
\* and clear of the existing centres, or None (<< >>) when every pass missed
_sample_on_symmetry_line(sym, name, b, d, existing) ==
    LET cand == OnLineCandidates(sym, b)
        good == {p \in cand : InsideCheck(name, p)
                              /\ \A i \in DOMAIN existing : FarEnough(p, existing[i], d)}
    IN {Some(p) : p \in good} \cup (IF cand \ good # {} THEN {None} ELSE {})

need_pairs == count \div 2
need_on_line == count % 2

InitSymmetric ==
    /\ fn = "random_positions_symmetric"
    /\ pc = "loop"
    /\ count \in 1..(MaxCount + 1)
    /\ symmetry \in Symmetries
    /\ min_dist \in MinDists
    /\ inside_check = "circle"
    /\ bounds = CircleBounds
    /\ margin = 0
    /\ limit = MaxAttempts          \* MAX_PLACEMENT_ATTEMPTS_SYMMETRIC, capped
    /\ positions = << >>
    /\ attempts = 0
    /\ SplitsIdle
    /\ CdpIdle
    /\ GenIdle
    /\ SampleIdle
    /\ FragIdle
    /\ ClipIdle
    /\ BboxIdle
    /\ PathIdle
    /\ MeshIdle
    /\ ArrayIdle
    /\ StackIdle
    /\ RetryIdle
    /\ RenderIdle
    /\ PartIdle

\* one pass of the loop while a pair is still needed
SymmetricPairAttempt ==
    /\ fn = "random_positions_symmetric"
    /\ pc = "loop"
    /\ Len(positions) < count /\ attempts < limit
    /\ Len(positions) < 2 * need_pairs
    /\ LET pb == _canonical_half_bounds_for_pairs(bounds, symmetry, min_dist)
       IN \E cx \in Uniform2(pb[1], pb[2]), cy \in Uniform2(pb[3], pb[4]) :
             positions' = IF accept_pair(<<cx, cy>>, symmetry, inside_check, positions, min_dist)
                          THEN positions \o <<<<cx, cy>>, _mirror_point(<<cx, cy>>, symmetry)>>
                          ELSE positions
    /\ attempts' = attempts + 1
    /\ UNCHANGED <<fn, pc, placeArgs, splitVars, cdpVars, genVars, partVars, renderVars, retryVars, stackVars, arrayVars, meshVars, pathVars, bboxVars, clipVars, fragVars, sampleVars>>

\* one pass of the loop when only the centre on the line is missing
SymmetricOnLineAttempt ==
    /\ fn = "random_positions_symmetric"
    /\ pc = "loop"
    /\ Len(positions) < count /\ attempts < limit
    /\ ~(Len(positions) < 2 * need_pairs)
    /\ need_on_line # 0 /\ Len(positions) = count - 1
    /\ \E on_line \in _sample_on_symmetry_line(symmetry, inside_check, bounds, min_dist, positions) :
          positions' = IF on_line # None THEN Append(positions, on_line[1]) ELSE positions
    /\ attempts' = attempts + 1
    /\ UNCHANGED <<fn, pc, placeArgs, splitVars, cdpVars, genVars, partVars, renderVars, retryVars, stackVars, arrayVars, meshVars, pathVars, bboxVars, clipVars, fragVars, sampleVars>>

\* the loop has ended: raise SystemExit when short, else return positions
SymmetricExit ==
    /\ fn = "random_positions_symmetric"
    /\ pc = "loop"
    /\ ~(Len(positions) < count /\ attempts < limit)
    /\ pc' = IF Len(positions) < count THEN "raised" ELSE "returned"
    /\ UNCHANGED <<fn, placeVars, splitVars, cdpVars, genVars, partVars, renderVars, retryVars, stackVars, arrayVars, meshVars, pathVars, bboxVars, clipVars, fragVars, sampleVars>>

NextSymmetric == SymmetricPairAttempt \/ SymmetricOnLineAttempt \/ SymmetricExit

SpecSymmetric == InitSymmetric /\ [][NextSymmetric]_vars

\* C10: for every axis, the two centres of each accepted mirrored pair are
\* each at least half the minimum distance from the axis, so the two centres
\* of a pair are at least min_dist apart.
Claim_C10_PairClearOfAxis ==
    fn = "random_positions_symmetric" =>
        \A k \in 1..need_pairs :
            2 * k <= Len(positions) =>
                /\ ~CloserToLineThanHalf(positions[2 * k - 1], symmetry, min_dist)
                /\ ~CloserToLineThanHalf(positions[2 * k], symmetry, min_dist)
                /\ DistSq(positions[2 * k - 1], positions[2 * k]) >= min_dist * min_dist

\* C11 as stated: symmetric scatter of an even count about the vertical axis
\* returns a set that is its own mirror image: for every returned centre
\* (x, y) the centre (100 - x, y) is also returned.
Claim_C11_OwnMirrorImage ==
    (fn = "random_positions_symmetric" /\ pc = "returned"
        /\ symmetry = "vertical" /\ count % 2 = 0) =>
        \A i \in DOMAIN positions :
            \E j \in DOMAIN positions :
                positions[j] = <<VIEWBOX_SIZE - positions[i][1], positions[i][2]>>

\* C11, amended: symmetric scatter of an even count about the vertical axis
\* returns count centres in pairs; the second centre of a pair is the first
\* one's image (100.0 - x, y) as the float subtraction computes it, so it has
\* the same y and its x is within one rounding step of the exact image.
Thm_C11_MirrorPairsUpToRounding ==
    (fn = "random_positions_symmetric" /\ pc = "returned"
        /\ symmetry = "vertical" /\ count % 2 = 0) =>
        /\ Len(positions) = count
        /\ \A k \in 1..need_pairs :
              /\ positions[2 * k][2] = positions[2 * k - 1][2]
              /\ positions[2 * k][1] = Fl(VIEWBOX_SIZE - positions[2 * k - 1][1])
              /\ Abs(positions[2 * k][1] - (VIEWBOX_SIZE - positions[2 * k - 1][1])) <= 1

\* two pairs were returned about the vertical axis, one of them with an image
\* that the subtraction had to round
Wit_C11_TwoPairsOneRounded ==
    /\ fn = "random_positions_symmetric" /\ pc = "returned"
    /\ symmetry = "vertical" /\ count = 4 /\ Len(positions) = 4
    /\ positions[2][1] # VIEWBOX_SIZE - positions[1][1]
    /\ positions[4][1] = VIEWBOX_SIZE - positions[3][1]

\* C12: symmetric scatter of an odd count about the vertical axis returns
\* exactly one centre with x = 50; every other returned centre is off the axis.
Thm_C12_OneCentreOnAxis ==
    (fn = "random_positions_symmetric" /\ pc = "returned"
        /\ symmetry = "vertical" /\ count % 2 = 1) =>
        /\ Len(positions) = count
        /\ Cardinality({i \in DOMAIN positions : positions[i][1] = CENTRE}) = 1
        /\ positions[count][1] = CENTRE

\* one pair and the centre on the axis were returned
Wit_C12_PairAndAxisCentre ==
    /\ fn = "random_positions_symmetric" /\ pc = "returned"
    /\ symmetry = "vertical" /\ count = 3 /\ Len(positions) = 3
    /\ positions[1][1] < CENTRE /\ positions[2][1] > CENTRE

----------------------------------------------------------------------------
(* question-scripts/gen_template2.py *)

N_OPTIONS == 5

\* the first MaxPool entries of a source list (a draw from the shorter list
\* is a draw the full list allows)
Pool(list) == SubSeq(list, 1, Min2(Len(list), MaxPool))

COMMON_SHAPES == Pool(<<"circle", "triangle", "square", "pentagon", "hexagon", "octagon">>)
PARTITIONS_ALL == <<"horizontal", "vertical", "diagonal_slash", "diagonal_backslash">>
PARTITIONS_RADIAL == <<"radial">>
PARTITIONS_CONCENTRIC == <<"concentric">>
FILLS == Pool(<<"solid_black", "grey", "grey_light", "white", "white_fill",
                "diagonal_slash", "diagonal_backslash", "horizontal_lines",
                "vertical_lines">>)
NUM_SECTIONS_RANGE == Pool(<<2, 3, 4>>)
DIFF_WEIGHTS == <<"partition_type", "num_sections", "fill">>

get_valid_partitions(sh) ==
    CASE sh = "circle" -> PARTITIONS_ALL \o PARTITIONS_RADIAL \o PARTITIONS_CONCENTRIC
      [] sh = "square" -> PARTITIONS_ALL \o PARTITIONS_CONCENTRIC
      [] sh = "semicircle" -> PARTITIONS_ALL \o PARTITIONS_RADIAL
      [] OTHER -> PARTITIONS_ALL

\* rng.sample(pool, k): k distinct entries of the pool, in any order
Sample(pool, k) ==
    {v \in [1..k -> Range(pool)] : \A i, j \in 1..k : i # j => v[i] # v[j]}

\* the outcomes of _generate_value_indices (0 = common, 1 = unique); each is
\* [ok, val], ok FALSE when sample_split raises
_generate_value_indices(n, is_differentiator, correct_index, maxv) ==
    IF is_differentiator
    THEN IF maxv # None /\ maxv[1] < 2
         THEN {Returned([i \in 1..n |-> 0])}
         ELSE {Returned([i \in 1..n |-> IF i = correct_index + 1 THEN 1 ELSE 0])}
    ELSE UNION {IF sp.ok THEN assign_split_to_indices(sp.val, n) ELSE {Raised} :
                   sp \in sample_split(n, maxv)}

\* sorted(list(set(indices)))
RECURSIVE SortedSeq(_)
SortedSeq(S) ==
    IF S = {} THEN << >>
    ELSE LET m == CHOOSE x \in S : \A y \in S : x <= y
         IN <<m>> \o SortedSeq(S \ {m})

PositionIn(list, v) == CHOOSE k \in DOMAIN list : list[k] = v

\* the outcomes of _get_values_from_pool(indices, pool, rng)
_get_values_from_pool(idx, pool) ==
    LET unique_indices == SortedSeq(Range(idx))
        need == Len(unique_indices)
        vals == IF need > Len(pool)
                THEN {base \o extra : base \in Sample(pool, Len(pool)),
                                      extra \in [1..(need - Len(pool)) -> Range(pool)]}
                ELSE Sample(pool, need)
    IN {[i \in DOMAIN idx |-> v[PositionIn(unique_indices, idx[i])]] : v \in vals}

\* [rng.choice(FILLS) for _ in range(n)]
FillPatterns(n) ==
    {pat \in [1..n -> Range(FILLS)] : \A k \in 1..n : k > MaxVarySections => pat[k] = FILLS[1]}

\* pool_patterns after the given number of passes of
\*   pat = [...]; if pat not in pool_patterns: pool_patterns.append(pat)
RECURSIVE PatternPools(_, _)
PatternPools(n, tries) ==
    IF tries = 0 THEN {<< >>}
    ELSE {IF pat \in Range(pl) THEN pl ELSE Append(pl, pat) :
             pl \in PatternPools(n, tries - 1), pat \in FillPatterns(n)}

InitTemplate2 ==
    /\ fn = "generate_question"
    /\ pc = "start"
    /\ GenIdle
    /\ SampleIdle
    /\ FragIdle
    /\ ClipIdle
    /\ BboxIdle
    /\ PathIdle
    /\ MeshIdle
    /\ ArrayIdle
    /\ StackIdle
    /\ RetryIdle
    /\ RenderIdle
    /\ PartIdle
    /\ SplitsIdle
    /\ CdpIdle
    /\ PlaceIdle

\* 1-3: shape, differentiator and correct index are drawn
T2Setup ==
    /\ fn = "generate_question"
    /\ pc = "start"
    /\ shape' \in Range(COMMON_SHAPES)
    /\ diff_attr' \in Range(DIFF_WEIGHTS)
    /\ correct_idx' \in 0..(N_OPTIONS - 1)
    /\ pc' = "partition_type"
    /\ UNCHANGED <<fn, option_partitions, option_num_sections, option_fills,
                   question_data, splitVars, cdpVars, placeVars, partVars, renderVars, retryVars, stackVars, arrayVars, meshVars, pathVars, bboxVars, clipVars, fragVars, sampleVars>>

\* -- Partition Type --  (the retry loop keeps the last list drawn)
T2PartitionType ==
    /\ fn = "generate_question"
    /\ pc = "partition_type"
    /\ LET valid_partitions == Pool(get_valid_partitions(shape))
       IN \E r \in _generate_value_indices(N_OPTIONS, diff_attr = "partition_type",
                                           correct_idx, Some(Len(valid_partitions))) :
             IF r.ok
             THEN /\ option_partitions' \in _get_values_from_pool(r.val, valid_partitions)
                  /\ pc' = "num_sections"
             ELSE /\ option_partitions' = option_partitions
                  /\ pc' = "raised"
    /\ UNCHANGED <<fn, shape, diff_attr, correct_idx, option_num_sections, option_fills,
                   question_data, splitVars, cdpVars, placeVars, partVars, renderVars, retryVars, stackVars, arrayVars, meshVars, pathVars, bboxVars, clipVars, fragVars, sampleVars>>

\* -- Num Sections --
T2NumSections ==
    /\ fn = "generate_question"
    /\ pc = "num_sections"
    /\ IF diff_attr = "fill"
       THEN /\ \E n \in Range(NUM_SECTIONS_RANGE) :
                  option_num_sections' = [i \in 1..N_OPTIONS |-> n]
            /\ pc' = "fills"
       ELSE \E r \in _generate_value_indices(N_OPTIONS, diff_attr = "num_sections",
                                             correct_idx, Some(Len(NUM_SECTIONS_RANGE))) :
               IF r.ok
               THEN /\ option_num_sections' \in _get_values_from_pool(r.val, NUM_SECTIONS_RANGE)
                    /\ pc' = "fills"
               ELSE /\ option_num_sections' = option_num_sections
                    /\ pc' = "raised"
    /\ UNCHANGED <<fn, shape, diff_attr, correct_idx, option_partitions, option_fills,
                   question_data, splitVars, cdpVars, placeVars, partVars, renderVars, retryVars, stackVars, arrayVars, meshVars, pathVars, bboxVars, clipVars, fragVars, sampleVars>>

\* -- Fills --, fill is the differentiator
T2FillsDifferentiator ==
    /\ fn = "generate_question"
    /\ pc = "fills"
    /\ diff_attr = "fill"
    /\ \E pats \in PatternPools(option_num_sections[1], MaxPatternTries) :
          \E r \in _generate_value_indices(N_OPTIONS, TRUE, correct_idx,
                                           Some(Len(pats))) :
             option_fills' \in _get_values_from_pool(r.val, pats)
    /\ pc' = "construct"
    /\ UNCHANGED <<fn, shape, diff_attr, correct_idx, option_partitions,
                   option_num_sections, question_data, splitVars, cdpVars, placeVars, partVars, renderVars, retryVars, stackVars, arrayVars, meshVars, pathVars, bboxVars, clipVars, fragVars, sampleVars>>

\* -- Fills --, fill is a variator: n random fills for each option
T2FillsVariator ==
    /\ fn = "generate_question"
    /\ pc = "fills"
    /\ diff_attr # "fill"
    /\ \E f \in [1..N_OPTIONS -> UNION {FillPatterns(n) : n \in Range(NUM_SECTIONS_RANGE)}] :
          /\ \A i \in 1..N_OPTIONS : Len(f[i]) = option_num_sections[i]
          /\ option_fills' = f
    /\ pc' = "construct"
    /\ UNCHANGED <<fn, shape, diff_attr, correct_idx, option_partitions,
                   option_num_sections, question_data, splitVars, cdpVars, placeVars, partVars, renderVars, retryVars, stackVars, arrayVars, meshVars, pathVars, bboxVars, clipVars, fragVars, sampleVars>>

\* 4. Construct Options, return question_data
T2Return ==
    /\ fn = "generate_question"
    /\ pc = "construct"
    /\ question_data' =
          [options |-> [i \in 1..N_OPTIONS |->
                           [shape |-> shape,
                            partition |-> option_partitions[i],
                            num_sections |-> option_num_sections[i],
                            fills |-> option_fills[i],
                            is_correct |-> (i - 1 = correct_idx)]],
           differentiator |-> diff_attr,
           common_shape |-> shape]
    /\ pc' = "returned"
    /\ UNCHANGED <<fn, shape, diff_attr, correct_idx, option_partitions,
                   option_num_sections, option_fills, splitVars, cdpVars, placeVars, partVars, renderVars, retryVars, stackVars, arrayVars, meshVars, pathVars, bboxVars, clipVars, fragVars, sampleVars>>

NextTemplate2 ==
    \/ T2Setup
    \/ T2PartitionType
    \/ T2NumSections
    \/ T2FillsDifferentiator
    \/ T2FillsVariator
    \/ T2Return

SpecTemplate2 == InitTemplate2 /\ [][NextTemplate2]_vars

QuestionReturned == fn = "generate_question" /\ pc = "returned"

Opts == question_data.options
CorrectPos == CHOOSE i \in 1..N_OPTIONS : Opts[i].is_correct

\* option i holds a value of the property that no other option holds, and
\* the other four options share one value
OneVsFourAt(prop, i) ==
    CASE prop = "partition_type" ->
            /\ \A j \in 1..N_OPTIONS \ {i} : Opts[j].partition # Opts[i].partition
            /\ \A j, k \in 1..N_OPTIONS \ {i} : Opts[j].partition = Opts[k].partition
      [] prop = "num_sections" ->
            /\ \A j \in 1..N_OPTIONS \ {i} : Opts[j].num_sections # Opts[i].num_sections
            /\ \A j, k \in 1..N_OPTIONS \ {i} : Opts[j].num_sections = Opts[k].num_sections
      [] prop = "fill" ->
            /\ \A j \in 1..N_OPTIONS \ {i} : Opts[j].fills # Opts[i].fills
            /\ \A j, k \in 1..N_OPTIONS \ {i} : Opts[j].fills = Opts[k].fills
      [] OTHER ->
            /\ \A j \in 1..N_OPTIONS \ {i} : Opts[j].shape # Opts[i].shape
            /\ \A j, k \in 1..N_OPTIONS \ {i} : Opts[j].shape = Opts[k].shape

\* C1: in every returned option set the differentiator takes exactly two
\* values: one held only by the correct option, one shared by the other four.
Claim_C1_DifferentiatorSplitsOneVsFour ==
    QuestionReturned => OneVsFourAt(question_data.differentiator, CorrectPos)

\* C2: in every returned option set no property other than the
\* differentiator shows a 1-vs-4 split.
Claim_C2_NoOtherOneVsFour ==
    QuestionReturned =>
        \A prop \in {"shape", "partition_type", "num_sections", "fill"} :
            prop # question_data.differentiator =>
                ~ \E i \in 1..N_OPTIONS : OneVsFourAt(prop, i)

SameOption(a, b) ==
    /\ a.shape = b.shape
    /\ a.partition = b.partition
    /\ a.num_sections = b.num_sections
    /\ a.fills = b.fills

\* C3: no returned option set holds two options identical in every property.
Claim_C3_NoDuplicateOptions ==
    QuestionReturned =>
        \A i, j \in 1..N_OPTIONS : i # j => ~SameOption(Opts[i], Opts[j])

----------------------------------------------------------------------------
(* Partition engine: nvr_draw_container_svg.py build_partitioned_sections,   *)
(* reached from main(), single_shape_renderer.render_shape_to_svg and        *)
(* gen_template2.render_option.  Section bounds are even (k/n of the extent), *)
(* so a call is described by its number of sections.  A fill is recorded by   *)
(* the region it paints, a separator by the line it draws.                    *)

PartitionShapes == {"circle", "triangle", "square", "pentagon", "hexagon", "octagon",
                    "rectangle"}
PartitionDirections == {"horizontal", "vertical", "diagonal_slash", "diagonal_backslash",
                        "concentric", "radial"}
RegularPolygons == {"triangle", "square", "pentagon", "hexagon", "heptagon", "octagon"}

\* len(vertices) of get_shape_geometry
VertexCount(sh) ==
    CASE sh = "circle" -> 0
      [] sh = "triangle" -> 3
      [] sh = "square" -> 4
      [] sh = "rectangle" -> 4
      [] sh = "pentagon" -> 5
      [] sh = "hexagon" -> 6
      [] sh = "heptagon" -> 7
      [] sh = "octagon" -> 8
      [] OTHER -> 0

HasVertices(sh) == VertexCount(sh) >= 3

\* even_section_bounds(num_sections), by the number of bounds it returns
even_section_bounds(num_sections) == IF num_sections < 1 THEN 0 ELSE num_sections

Region(i, kind, edges) == [section |-> i, kind |-> kind, edges |-> edges]
Line(kind, at) == [kind |-> kind, at |-> at]
Emitted(fills, lines) == [ok |-> TRUE, fills |-> fills, lines |-> lines]
Failed == [ok |-> FALSE, fills |-> << >>, lines |-> << >>]

\* idx0 = (i * step) % sides
WedgeStart(i, step, sides) == (i * step) % sides

\* what one pass of  for i, (lo, hi) in enumerate(section_bounds)  appends
SectionOutput(sh, dir, n, i) ==
    LET inner == i + 1 < n IN
    CASE dir \in {"horizontal", "vertical"} ->
            Emitted(<<Region(i, "band", {})>>,
                    IF inner THEN <<Line(dir, i + 1)>> ELSE << >>)
      [] dir \in {"diagonal_slash", "diagonal_backslash"} ->
            Emitted(IF HasVertices(sh) THEN <<Region(i, "band", {})>> ELSE << >>,
                    IF inner THEN <<Line(dir, i + 1)>> ELSE << >>)
      [] dir = "concentric" /\ sh = "circle" ->
            Emitted(<<Region(i, "ring", {})>>,
                    IF inner THEN <<Line("ring", i + 1)>> ELSE << >>)
      [] dir = "radial" ->
            IF sh = "circle"
            THEN Emitted(<<Region(i, "wedge", {})>>,
                         IF inner THEN <<Line("spoke", i + 1)>>
                         ELSE IF i = n - 1 THEN <<Line("spoke", 0)>>
                         ELSE << >>)
            ELSE IF HasVertices(sh)
            THEN LET sides == VertexCount(sh) IN
                 IF sh \in RegularPolygons /\ sides % n = 0
                 THEN LET step == sides \div n
                          idx0 == WedgeStart(i, step, sides)
                          idx1 == (idx0 + 1) % sides
                      IN Emitted(<<Region(i, "wedge", {idx0})>>, <<Line("spoke", idx1)>>)
                 ELSE IF n # 4 THEN Failed
                 ELSE Emitted(<<Region(i, "quadrant", {})>>,
                              CASE i = 0 -> <<Line("vertical", 0), Line("horizontal", 0)>>
                                [] i = 1 -> <<Line("horizontal", 0)>>
                                [] i = 2 -> <<Line("vertical", 0)>>
                                [] OTHER -> << >>)
            ELSE Failed
      [] dir = "concentric" /\ HasVertices(sh) ->
            Emitted(<<Region(i, "ring", {})>>,
                    IF inner THEN <<Line("ring", i + 1)>> ELSE << >>)
      [] OTHER -> Emitted(<< >>, << >>)

\* build_partitioned_sections by its fill_parts and partition_lines; a
\* ValueError raised in any pass ends the call
RECURSIVE BuildFrom(_, _, _, _)
BuildFrom(sh, dir, n, i) ==
    IF i >= n THEN Emitted(<< >>, << >>)
    ELSE LET here == SectionOutput(sh, dir, n, i)
             rest == BuildFrom(sh, dir, n, i + 1)
         IN IF here.ok /\ rest.ok
            THEN Emitted(here.fills \o rest.fills, here.lines \o rest.lines)
            ELSE Failed

build_partitioned_sections(sh, dir, n) == BuildFrom(sh, dir, n, 0)

\* the checks of main() before the engine is called: TRUE when it exits
MainRejects(sh, dir, given) ==
    \/ dir \in {"diagonal_slash", "diagonal_backslash"} /\ ~HasVertices(sh)
    \/ dir = "concentric" /\ ~(sh = "circle" /\ VertexCount(sh) = 0) /\ ~HasVertices(sh)
    \/ dir = "radial" /\ VertexCount(sh) = 0 /\ sh \notin {"circle", "semicircle"}
    \/ given # None /\ given[1] < 1                    \* len(parts) < 2
    \/ LET n == IF given # None THEN given[1]
                ELSE even_section_bounds(IF dir = "radial" THEN 4 ELSE 2)
       IN /\ n >= 1
          /\ dir = "radial" /\ HasVertices(sh)
          /\ IF sh \in RegularPolygons THEN VertexCount(sh) % n # 0
             ELSE IF sh = "semicircle" THEN FALSE
             ELSE IF sh = "star" /\ n = 5 THEN FALSE
             ELSE n # 4

PartitionCallers == {"main", "render_shape_to_svg", "render_option"}

InitPartition ==
    /\ fn \in PartitionCallers
    /\ pc = "start"
    /\ IF fn = "render_option"
       THEN /\ shape \in {"circle", "triangle", "square", "pentagon", "hexagon", "octagon"}
            /\ \E k \in DOMAIN get_valid_partitions(shape) :
                  partition_direction = get_valid_partitions(shape)[k]
            /\ section_count \in {Some(n) : n \in {2, 3, 4}}
       ELSE /\ shape \in PartitionShapes
            /\ partition_direction \in PartitionDirections
            /\ section_count \in {Some(n) : n \in 0..MaxSections}
                                  \cup (IF fn = "main" THEN {None} ELSE {})
    /\ fill_parts = << >>
    /\ partition_lines = << >>
    /\ diff_attr = "" /\ correct_idx = 0
    /\ option_partitions = << >> /\ option_num_sections = << >> /\ option_fills = << >>
    /\ question_data = << >>
    /\ SplitsIdle
    /\ CdpIdle
    /\ PlaceIdle
    /\ RenderIdle
    /\ RetryIdle
    /\ StackIdle
    /\ ArrayIdle
    /\ MeshIdle
    /\ PathIdle
    /\ BboxIdle
    /\ ClipIdle
    /\ FragIdle
    /\ SampleIdle

\* the engine's result taken over by the caller
TakeOver(r) ==
    /\ pc' = IF r.ok THEN "returned" ELSE "raised"
    /\ fill_parts' = r.fills
    /\ partition_lines' = r.lines

\* main(): the partition branch
MainPartition ==
    /\ fn = "main" /\ pc = "start"
    /\ IF MainRejects(shape, partition_direction, section_count)
       THEN TakeOver(Failed)
       ELSE LET n == IF section_count # None THEN section_count[1]
                     ELSE even_section_bounds(IF partition_direction = "radial" THEN 4 ELSE 2)
            IN TakeOver(build_partitioned_sections(shape, partition_direction, n))
    /\ UNCHANGED <<fn, partition_direction, section_count, genVars, splitVars, cdpVars, placeVars, renderVars, retryVars, stackVars, arrayVars, meshVars, pathVars, bboxVars, clipVars, fragVars, sampleVars>>

\* render_shape_to_svg: _parse_partition, then the engine
RenderShapeToSvg ==
    /\ fn = "render_shape_to_svg" /\ pc = "start"
    /\ IF section_count[1] = 0                       \* if not section_bounds: raise
       THEN TakeOver(Failed)
       ELSE TakeOver(build_partitioned_sections(shape, partition_direction, section_count[1]))
    /\ UNCHANGED <<fn, partition_direction, section_count, genVars, splitVars, cdpVars, placeVars, renderVars, retryVars, stackVars, arrayVars, meshVars, pathVars, bboxVars, clipVars, fragVars, sampleVars>>

\* render_option of gen_template2: even_section_bounds(n), then the engine
RenderOption ==
    /\ fn = "render_option" /\ pc = "start"
    /\ TakeOver(build_partitioned_sections(shape, partition_direction,
                                           even_section_bounds(section_count[1])))
    /\ UNCHANGED <<fn, partition_direction, section_count, genVars, splitVars, cdpVars, placeVars, renderVars, retryVars, stackVars, arrayVars, meshVars, pathVars, bboxVars, clipVars, fragVars, sampleVars>>

NextPartition == MainPartition \/ RenderShapeToSvg \/ RenderOption

SpecPartition == InitPartition /\ [][NextPartition]_vars

\* the number of sections the engine was handed
SectionsHanded ==
    IF section_count # None THEN section_count[1]
    ELSE even_section_bounds(IF partition_direction = "radial" THEN 4 ELSE 2)

PartitionDone == fn \in PartitionCallers /\ pc \in {"returned", "raised"}

\* C13 as stated: a radial partition of a regular polygon whose side count
\* the section count does not divide is rejected, for every such count.
Claim_C13_NonDividingRejected ==
    (PartitionDone /\ partition_direction = "radial" /\ shape \in RegularPolygons
        /\ SectionsHanded >= 1 /\ VertexCount(shape) % SectionsHanded # 0) =>
        pc = "raised"

\* C14 as stated: when the section count divides the side count, every
\* polygon edge lies in exactly one wedge (no gaps, no overlaps).
Claim_C14_WedgesCoverEveryEdge ==
    (PartitionDone /\ pc = "returned" /\ partition_direction = "radial"
        /\ shape \in RegularPolygons
        /\ SectionsHanded >= 1 /\ VertexCount(shape) % SectionsHanded = 0) =>
        \A e \in 0..(VertexCount(shape) - 1) :
            Cardinality({k \in DOMAIN fill_parts : e \in fill_parts[k].edges}) = 1

\* C15 as stated: a diagonal partition of a circle is rejected, and no fill
\* and no separator is produced for it.
Claim_C15_DiagonalOnCircleRejected ==
    (PartitionDone /\ shape = "circle"
        /\ partition_direction \in {"diagonal_slash", "diagonal_backslash"}) =>
        /\ pc = "raised"
        /\ fill_parts = << >>
        /\ partition_lines = << >>

\* C16 as stated: a partition with fewer than 2 sections is rejected on
\* every path that reaches the engine.
Claim_C16_FewerThanTwoRejected ==
    (PartitionDone /\ SectionsHanded < 2) => pc = "raised"

\* the boundaries between adjacent sections: n - 1 for bands and rings, n for
\* the wedges of a radial partition (they close up around the centre)
InternalBoundaries(dir, n) ==
    IF n < 2 THEN 0 ELSE IF dir = "radial" THEN n ELSE n - 1

\* C17 as stated: for every direction and shape a separator is emitted
\* exactly once per internal boundary: none twice, none besides.
Claim_C17_OneSeparatorPerBoundary ==
    (PartitionDone /\ pc = "returned" /\ SectionsHanded >= 2) =>
        /\ \A j, k \in DOMAIN partition_lines :
              j # k => partition_lines[j] # partition_lines[k]
        /\ Len(partition_lines) = InternalBoundaries(partition_direction, SectionsHanded)

----------------------------------------------------------------------------
(* Rendering a diagram description twice: gen_template2.py render_option,    *)
(* nvr_draw_layout.py render_scatter and render_diagram_to_svg.  An SVG      *)
(* document is recorded by what varies in its text: the element ids, the     *)
(* fills and separators of the partition, and the centres of placed shapes.  *)

MaxSeed   == 2       \* seeds 0..MaxSeed
MaxClipId == 2       \* random.randint(0, 999999) drawn from 0..MaxClipId

ClipId(prefix, num) == [prefix |-> prefix, num |-> num]
DefaultClipId == ClipId("shapeClip", 0)          \* shape_clip_id: str = "shapeClip"

Svg(ids, fills, lines, centres) ==
    [ids |-> ids, fills |-> fills, lines |-> lines, centres |-> centres]

\* the k-th value a random.Random(s) returns: a fixed function of the seed
SeededDraw(s, k) == ((s + 1) * (k + 2) + k * k + s * s) % (2 * GridHalf + 1)

\* rng.uniform(a, b) for the k-th draw of random.Random(s)
SeededUniform(s, k, a, b) ==
    LET cands == SortedSeq(Uniform(a, b))
    IN cands[1 + (SeededDraw(s, k) % Len(cands))]

\* _scatter_scale_for_count(n) = 0.99 / (1 + sqrt(n)), in thousandths
_scatter_scale_for_count(n) ==
    CASE n <= 1 -> 495
      [] n = 2 -> 410
      [] n = 3 -> 362
      [] OTHER -> 330

\* margin = 50.0 * layout_scale + 1.0 ; min_dist = 100.0 * layout_scale
ScatterMargin(n) == (200 * _scatter_scale_for_count(n)) \div 1000 + 4
ScatterMinDist(n) == (400 * _scatter_scale_for_count(n)) \div 1000

\* _scatter_positions(n, margin, min_dist, rng) with rng = random.Random(s):
\* k counts the draws taken, tries the passes of the inner loop
RECURSIVE ScatterSeeded(_, _, _, _, _, _, _)
ScatterSeeded(n, m, d, s, k, tries, placed) ==
    IF Len(placed) >= n THEN placed
    ELSE IF tries >= MaxAttempts
    THEN ScatterSeeded(n, m, d, s, k, 0, Append(placed, FallbackPoint(placed, m)))
    ELSE LET cx == SeededUniform(s, k, m, VIEWBOX_SIZE - m)
             cy == SeededUniform(s, k + 1, m, VIEWBOX_SIZE - m)
         IN IF \A i \in DOMAIN placed : FarEnough(<<cx, cy>>, placed[i], d)
            THEN ScatterSeeded(n, m, d, s, k + 2, 0, Append(placed, <<cx, cy>>))
            ELSE ScatterSeeded(n, m, d, s, k + 2, tries + 1, placed)

\* render_scatter(scatter_el, motifs_dir, seed) once the rng is seeded with s
render_scatter(n, s) ==
    Returned(Svg(<< >>, << >>, << >>,
                 ScatterSeeded(n, ScatterMargin(n), ScatterMinDist(n), s, 0, 0, << >>)))

\* single_shape.render_shape_to_svg: the engine under the default clip id
render_shape_to_svg(sh, dir, sections) ==
    IF sections = None THEN Returned(Svg(<<DefaultClipId>>, << >>, << >>, << >>))
    ELSE IF sections[1] = 0 THEN Raised
    ELSE LET r == build_partitioned_sections(sh, dir, sections[1])
         IN IF r.ok THEN Returned(Svg(<<DefaultClipId>>, r.fills, r.lines, << >>))
            ELSE Raised

\* render_option(opt) with clip_id = "clip-<c>"
render_option(sh, dir, n, c) ==
    LET r == build_partitioned_sections(sh, dir, even_section_bounds(n))
    IN IF r.ok THEN Returned(Svg(<<ClipId("clip-", c)>>, r.fills, r.lines, << >>))
       ELSE Raised

RenderCallers == {"render_option", "render_scatter", "render_diagram_to_svg"}

InitRender ==
    /\ fn \in RenderCallers
    /\ pc = "start"
    /\ svg_first = << >>
    /\ svg_second = << >>
    /\ IF fn = "render_option"
       THEN /\ root_tag = "shape"
            /\ seed \in {Some(s) : s \in 0..MaxSeed}
            /\ shape \in {"circle", "triangle", "square", "pentagon", "hexagon", "octagon"}
            /\ \E k \in DOMAIN get_valid_partitions(shape) :
                  partition_direction = get_valid_partitions(shape)[k]
            /\ section_count \in {Some(n) : n \in {2, 3, 4}}
            /\ count = 0
       ELSE /\ root_tag \in (IF fn = "render_scatter" THEN {"scatter"} ELSE {"shape", "scatter"})
            /\ seed \in {None} \cup {Some(s) : s \in 0..MaxSeed}
            /\ IF root_tag = "scatter"
               THEN /\ shape = "" /\ partition_direction = "" /\ section_count = None
                    /\ count \in 1..MaxCount
               ELSE /\ shape \in PartitionShapes
                    /\ partition_direction \in PartitionDirections
                    /\ section_count \in {None} \cup {Some(n) : n \in 1..MaxSections}
                    /\ count = 0
    /\ fill_parts = << >>
    /\ partition_lines = << >>
    /\ diff_attr = "" /\ correct_idx = 0
    /\ option_partitions = << >> /\ option_num_sections = << >> /\ option_fills = << >>
    /\ question_data = << >>
    /\ min_dist = 0 /\ inside_check = "none" /\ bounds = << >> /\ margin = 0
    /\ symmetry = "none" /\ limit = 0 /\ positions = << >> /\ attempts = 0
    /\ SplitsIdle
    /\ CdpIdle
    /\ RetryIdle
    /\ StackIdle
    /\ ArrayIdle
    /\ MeshIdle
    /\ PathIdle
    /\ BboxIdle
    /\ ClipIdle
    /\ FragIdle
    /\ SampleIdle

\* the document a rendering returned (or its failure) is kept: first, then second
KeepRendering(out) ==
    /\ pc \in {"start", "once"}
    /\ IF pc = "start"
       THEN svg_first' = <<out>> /\ svg_second' = svg_second /\ pc' = "once"
       ELSE svg_second' = <<out>> /\ svg_first' = svg_first /\ pc' = "twice"
    /\ UNCHANGED <<fn, seed, root_tag, splitVars, cdpVars, placeVars, genVars, partVars, retryVars, stackVars, arrayVars, meshVars, pathVars, bboxVars, clipVars, fragVars, sampleVars>>

\* render_option: clip_id comes from the module-level random, which nothing seeds
RenderOptionSvg ==
    /\ fn = "render_option"
    /\ \E c \in 0..MaxClipId :
          KeepRendering(render_option(shape, partition_direction, section_count[1], c))

\* rng = random.Random(seed): seeded from the operating system when seed is None
SeedsOf(sd) == IF sd = None THEN 0..MaxSeed ELSE {sd[1]}

RenderScatter ==
    /\ fn = "render_scatter"
    /\ \E s \in SeedsOf(seed) : KeepRendering(render_scatter(count, s))

\* render_diagram_to_svg: dispatch on the root element
RenderDiagramToSvg ==
    /\ fn = "render_diagram_to_svg"
    /\ IF root_tag = "shape"
       THEN KeepRendering(render_shape_to_svg(shape, partition_direction, section_count))
       ELSE \E s \in SeedsOf(seed) : KeepRendering(render_scatter(count, s))

NextRender == RenderOptionSvg \/ RenderScatter \/ RenderDiagramToSvg

SpecRender == InitRender /\ [][NextRender]_vars

\* C18 as stated: the same diagram description rendered twice with the same
\* seed gives the same SVG text both times.
Claim_C18_SameSeedSameSvg ==
    (fn \in RenderCallers /\ pc = "twice" /\ seed # None) => svg_first = svg_second

----------------------------------------------------------------------------
(* The retry loops of question generation: the attempt loop of               *)
(* gen_template3.generate_question and the two  for _ in range(10)  loops of *)
(* gen_template2.generate_question.  attempts counts the passes made of the  *)
(* running loop, limit is its cap.  Of gen_template2 the steps that feed or  *)
(* follow a loop are kept; the others are those of SpecTemplate2.            *)

RetryCallers == {"gen_template3", "gen_template2"}

InitRetry ==
    /\ fn \in RetryCallers
    /\ pc = "start"
    /\ attempts = 0
    /\ limit = IF fn = "gen_template3" THEN MaxAttempts ELSE MaxPatternTries
    /\ pool_patterns = << >>
    /\ valid = FALSE
    /\ count = 0 /\ min_dist = 0 /\ inside_check = "none" /\ bounds = << >> /\ margin = 0
    /\ symmetry = "none" /\ positions = << >>
    /\ SplitsIdle
    /\ CdpIdle
    /\ GenIdle
    /\ SampleIdle
    /\ FragIdle
    /\ ClipIdle
    /\ BboxIdle
    /\ PathIdle
    /\ MeshIdle
    /\ ArrayIdle
    /\ StackIdle
    /\ PartIdle
    /\ RenderIdle

\* gen_template3: layout, nulls and diff_key are drawn before the loop
T3Setup ==
    /\ fn = "gen_template3" /\ pc = "start"
    /\ diff_attr' \in {"shape", "fill"}              \* is_shape_diff
    /\ pc' = "loop"
    /\ UNCHANGED <<fn, shape, correct_idx, option_partitions, option_num_sections,
                   option_fills, question_data, splitVars, cdpVars, placeVars,
                   partVars, renderVars, retryVars, stackVars, arrayVars, meshVars, pathVars, bboxVars, clipVars, fragVars, sampleVars>>

\* one pass of  for attempt in range(max_attempts): the options are drawn and
\* validated; a conflict pointing at another option or two equal options
\* make the pass invalid; a valid pass returns the question
T3Attempt ==
    /\ fn = "gen_template3" /\ pc = "loop"
    /\ attempts < limit
    /\ correct_idx' \in 0..(N_OPTIONS - 1)
    /\ \E conflict_elsewhere, duplicate \in BOOLEAN :
          valid' = (~conflict_elsewhere /\ ~duplicate)
    /\ attempts' = attempts + 1
    /\ pc' = IF valid' THEN "returned" ELSE "loop"
    /\ UNCHANGED <<fn, shape, diff_attr, option_partitions, option_num_sections,
                   option_fills, question_data, splitVars, cdpVars, placeArgs, positions,
                   partVars, renderVars, pool_patterns, stackVars, arrayVars, meshVars, pathVars, bboxVars, clipVars, fragVars, sampleVars>>

\* the loop ran out: raise RuntimeError
T3Exhausted ==
    /\ fn = "gen_template3" /\ pc = "loop"
    /\ attempts >= limit
    /\ pc' = "raised"
    /\ UNCHANGED <<fn, genVars, splitVars, cdpVars, placeVars, partVars, renderVars,
                   retryVars, stackVars, arrayVars, meshVars, pathVars, bboxVars, clipVars, fragVars, sampleVars>>

\* gen_template2: 1-3, shape, differentiator and correct index are drawn
T2RetrySetup ==
    /\ fn = "gen_template2" /\ pc = "start"
    /\ shape' \in Range(COMMON_SHAPES)
    /\ diff_attr' \in Range(DIFF_WEIGHTS)
    /\ correct_idx' \in 0..(N_OPTIONS - 1)
    /\ pc' = IF diff_attr' = "partition_type" THEN "num_sections" ELSE "vary_partition"
    /\ UNCHANGED <<fn, option_partitions, option_num_sections, option_fills,
                   question_data, splitVars, cdpVars, placeVars, partVars, renderVars,
                   retryVars, stackVars, arrayVars, meshVars, pathVars, bboxVars, clipVars, fragVars, sampleVars>>

\* force_variance = (diff_attr == "fill" and len(valid_partitions) > 1)
force_variance(d, sh) == d = "fill" /\ Len(Pool(get_valid_partitions(sh))) > 1

AllSame(idx) == \A i, j \in DOMAIN idx : idx[i] = idx[j]     \* len(set(indices)) == 1

\* one pass of the first  for _ in range(10): indices are drawn; continue when
\* variance is wanted and missing, break otherwise
T2VariancePass ==
    /\ fn = "gen_template2" /\ pc = "vary_partition"
    /\ attempts < limit
    /\ \E r \in _generate_value_indices(N_OPTIONS, FALSE, correct_idx,
                                        Some(Len(Pool(get_valid_partitions(shape))))) :
          /\ indices' = r
          /\ IF ~r.ok THEN pc' = "raised" /\ attempts' = attempts + 1
             ELSE IF force_variance(diff_attr, shape) /\ AllSame(r.val)
             THEN pc' = "vary_partition" /\ attempts' = attempts + 1
             ELSE pc' = "num_sections" /\ attempts' = attempts + 1
    /\ UNCHANGED <<fn, genVars, n_options, max_values, split, cdpVars, placeArgs,
                   positions, partVars, renderVars, retryVars, stackVars, arrayVars, meshVars, pathVars, bboxVars, clipVars, fragVars, sampleVars>>

\* -- Num Sections --, reached when the first loop is left by break or by
\* running out; with fill as differentiator the count is constant and the
\* pattern loop follows, otherwise no loop follows
T2RetryNumSections ==
    /\ fn = "gen_template2"
    /\ pc = "num_sections" \/ (pc = "vary_partition" /\ attempts >= limit)
    /\ IF diff_attr = "fill"
       THEN /\ \E n \in Range(NUM_SECTIONS_RANGE) :
                  option_num_sections' = [i \in 1..N_OPTIONS |-> n]
            /\ pc' = "patterns"
       ELSE /\ option_num_sections' = option_num_sections
            /\ pc' = "returned"
    /\ attempts' = 0
    /\ UNCHANGED <<fn, shape, diff_attr, correct_idx, option_partitions, option_fills,
                   question_data, splitVars, cdpVars, placeArgs, positions, partVars,
                   renderVars, retryVars, stackVars, arrayVars, meshVars, pathVars, bboxVars, clipVars, fragVars, sampleVars>>

\* one pass of the second  for _ in range(10): a pattern is drawn and kept
\* when it is new
T2PatternPass ==
    /\ fn = "gen_template2" /\ pc = "patterns"
    /\ attempts < limit
    /\ \E pat \in FillPatterns(option_num_sections[1]) :
          pool_patterns' = IF pat \in Range(pool_patterns) THEN pool_patterns
                           ELSE Append(pool_patterns, pat)
    /\ attempts' = attempts + 1
    /\ UNCHANGED <<fn, pc, genVars, splitVars, cdpVars, placeArgs, positions, partVars,
                   renderVars, valid, stackVars, arrayVars, meshVars, pathVars, bboxVars, clipVars, fragVars, sampleVars>>

\* the second loop ran out: indices and fills are taken from whatever the
\* pool holds, and the question is returned
T2PatternsDone ==
    /\ fn = "gen_template2" /\ pc = "patterns"
    /\ attempts >= limit
    /\ \E r \in _generate_value_indices(N_OPTIONS, TRUE, correct_idx,
                                        Some(Len(pool_patterns))) :
          /\ indices' = r
          /\ option_fills' \in _get_values_from_pool(r.val, pool_patterns)
    /\ pc' = "returned"
    /\ UNCHANGED <<fn, shape, diff_attr, correct_idx, option_partitions,
                   option_num_sections, question_data, n_options, max_values, split,
                   cdpVars, placeVars, partVars, renderVars, retryVars, stackVars, arrayVars, meshVars, pathVars, bboxVars, clipVars, fragVars, sampleVars>>

NextRetry ==
    \/ T3Setup
    \/ T3Attempt
    \/ T3Exhausted
    \/ T2RetrySetup
    \/ T2VariancePass
    \/ T2RetryNumSections
    \/ T2PatternPass
    \/ T2PatternsDone

SpecRetry == InitRetry /\ [][NextRetry]_vars

\* what each loop was run for: a valid option set (gen_template3); partition
\* indices with variance when variance is forced, and at least two distinct
\* fill patterns when fill is the differentiator (gen_template2)
LoopSucceeded ==
    IF fn = "gen_template3" THEN valid
    ELSE /\ (force_variance(diff_attr, shape) /\ indices.ok) => ~AllSame(indices.val)
         /\ diff_attr = "fill" => Len(pool_patterns) >= 2

\* C19 as stated: no retry loop makes more passes than its cap, and a
\* generator whose loop ran out without a valid result raises: it never
\* returns a question.
Claim_C19_CapThenRaise ==
    fn \in RetryCallers =>
        /\ attempts <= limit
        /\ pc = "returned" => LoopSucceeded

----------------------------------------------------------------------------
(* Stack layout: nvr_draw_layout.py _stack_positions,                        *)
(* _stack_scale_max_in_viewbox and render_stack.  Scales given to the        *)
(* functions are in hundredths, centres in hundredths of a viewBox unit,     *)
(* and computed scales in ten-thousandths, which keeps every value exact.    *)

MaxChildren == 9                  \* most children of a stack

ELEMENT_SCALE_STACK == 28         \* 0.28
STACK_DRAW_SCALE_FACTOR == 160    \* 1.6
STACK_OFFSET == 52                \* 0.52
STACK_STEP_CROSS == 20            \* 0.2
STACK_CENTRE == 5000              \* cx, cy = 50.0, 50.0

\* the i-th centre before centring: (cx, cy) after i steps in the direction
StackStep(i, dir, scale) ==
    LET offset == scale * (100 - STACK_OFFSET)        \* size * (1 - STACK_OFFSET)
        step_cross == scale * STACK_STEP_CROSS        \* size * STACK_STEP_CROSS
    IN CASE dir = "down" -> <<STACK_CENTRE + i * step_cross, STACK_CENTRE + i * offset>>
         [] dir = "right" -> <<STACK_CENTRE + i * offset, STACK_CENTRE + i * step_cross>>
         [] dir = "left" -> <<STACK_CENTRE - i * offset, STACK_CENTRE + i * step_cross>>
         [] OTHER -> <<STACK_CENTRE + i * step_cross, STACK_CENTRE - i * offset>>

MinOf(S) == CHOOSE x \in S : \A y \in S : x <= y
MaxOf(S) == CHOOSE x \in S : \A y \in S : x >= y

\* _stack_positions(n, direction, scale)
_stack_positions(n, dir, scale) ==
    IF n < 1 THEN << >>
    ELSE LET raw == [i \in 1..n |-> StackStep(i - 1, dir, scale)]
             xs == {raw[i][1] : i \in 1..n}
             ys == {raw[i][2] : i \in 1..n}
             mid_x == (MinOf(xs) + MaxOf(xs)) \div 2
             mid_y == (MinOf(ys) + MaxOf(ys)) \div 2
         IN [i \in 1..n |-> <<raw[i][1] - mid_x + STACK_CENTRE,
                              raw[i][2] - mid_y + STACK_CENTRE>>]

\* margin = min(min(cx, 100 - cx, cy, 100 - cy) for cx, cy in positions)
StackMargin(pos) ==
    MinOf(UNION {{pos[i][1], 2 * STACK_CENTRE - pos[i][1],
                  pos[i][2], 2 * STACK_CENTRE - pos[i][2]} : i \in DOMAIN pos})

\* _stack_scale_max_in_viewbox(n, direction, position_scale): margin / 50.0
_stack_scale_max_in_viewbox(n, dir, scale) ==
    LET pos == _stack_positions(n, dir, scale)
    IN IF pos = << >> THEN 100 * scale ELSE 2 * StackMargin(pos)

StackDirections == {"up", "down", "left", "right"}

InitStack ==
    /\ fn \in {"render_stack", "_stack_scale_max_in_viewbox", "_stack_positions"}
    /\ pc = "start"
    /\ n_children \in 0..MaxChildren
    /\ direction \in StackDirections \cup {"diagonal"}
    /\ position_scale \in (IF fn = "render_stack" THEN {ELEMENT_SCALE_STACK}
                           ELSE {20, ELEMENT_SCALE_STACK})
    /\ stack_positions = << >>
    /\ scale_max = 0
    /\ scale_draw = 0
    /\ SplitsIdle
    /\ CdpIdle
    /\ PlaceIdle
    /\ GenIdle
    /\ SampleIdle
    /\ FragIdle
    /\ ClipIdle
    /\ BboxIdle
    /\ PathIdle
    /\ MeshIdle
    /\ ArrayIdle
    /\ PartIdle
    /\ RenderIdle
    /\ RetryIdle

\* the scale a child is drawn at: min(ELEMENT_SCALE_STACK * STACK_DRAW_SCALE_FACTOR, scale_max)
ScaleDraw(smax) ==
    IF ELEMENT_SCALE_STACK * STACK_DRAW_SCALE_FACTOR < smax
    THEN ELEMENT_SCALE_STACK * STACK_DRAW_SCALE_FACTOR ELSE smax

\* render_stack(stack_el, motifs_dir, seed)
RenderStack ==
    /\ fn = "render_stack" /\ pc = "start"
    /\ IF n_children < 2
       THEN /\ pc' = "raised"
            /\ UNCHANGED <<direction, stack_positions, scale_max, scale_draw, arrayVars, meshVars, pathVars, bboxVars, clipVars, fragVars, sampleVars>>
       ELSE LET dir == IF direction \in StackDirections THEN direction ELSE "up"
            IN /\ direction' = dir
               /\ stack_positions' = _stack_positions(n_children, dir, ELEMENT_SCALE_STACK)
               /\ scale_max' = _stack_scale_max_in_viewbox(n_children, dir, ELEMENT_SCALE_STACK)
               /\ scale_draw' = ScaleDraw(scale_max')
               /\ pc' = "returned"
    /\ UNCHANGED <<fn, n_children, position_scale, splitVars, cdpVars, placeVars, genVars,
                   partVars, renderVars, retryVars, arrayVars, meshVars, pathVars, bboxVars, clipVars, fragVars, sampleVars>>

\* _stack_scale_max_in_viewbox called on its own
CallStackScaleMax ==
    /\ fn = "_stack_scale_max_in_viewbox" /\ pc = "start"
    /\ scale_max' = _stack_scale_max_in_viewbox(n_children, direction, position_scale)
    /\ pc' = "returned"
    /\ UNCHANGED <<fn, n_children, direction, position_scale, stack_positions, scale_draw,
                   splitVars, cdpVars, placeVars, genVars, partVars, renderVars, retryVars, arrayVars, meshVars, pathVars, bboxVars, clipVars, fragVars, sampleVars>>

\* _stack_positions called on its own
CallStackPositions ==
    /\ fn = "_stack_positions" /\ pc = "start"
    /\ stack_positions' = _stack_positions(n_children, direction, position_scale)
    /\ pc' = "returned"
    /\ UNCHANGED <<fn, n_children, direction, position_scale, scale_max, scale_draw,
                   splitVars, cdpVars, placeVars, genVars, partVars, renderVars, retryVars, arrayVars, meshVars, pathVars, bboxVars, clipVars, fragVars, sampleVars>>

NextStack == RenderStack \/ CallStackScaleMax \/ CallStackPositions

SpecStack == InitStack /\ [][NextStack]_vars

\* centre +/- 50 * scale lies within 0..100 on both axes (scale in ten-thousandths)
OnCanvas(p, scale) ==
    \A k \in {1, 2} :
        /\ 0 <= 2 * p[k] - scale /\ 2 * p[k] - scale <= 4 * STACK_CENTRE
        /\ 0 <= 2 * p[k] + scale /\ 2 * p[k] + scale <= 4 * STACK_CENTRE

\* C20 as stated: for a stack of two or more children in any direction the
\* maximum scale computed is positive and keeps every child on the canvas.
Claim_C20_StackScalePositiveOnCanvas ==
    (fn \in {"render_stack", "_stack_scale_max_in_viewbox"} /\ pc = "returned"
        /\ n_children >= 2) =>
        /\ scale_max > 0
        /\ LET pos == _stack_positions(n_children, direction, position_scale)
           IN \A i \in DOMAIN pos : OnCanvas(pos[i], scale_max)

----------------------------------------------------------------------------
(* Array cells holding a nested layout: nvr_draw_layout.py render_array and  *)
(* _layout_effective_scale.  Scales are in ten-thousandths.  The element in  *)
(* a cell is a shape, a stack, a rectangular array or a scatter; the scale   *)
(* chosen for one cell is followed, every cell being treated alike.         *)

MaxGrid  == 3                     \* rows and cols of an array run over 1..MaxGrid
MaxCells == 6                     \* count of a loop or triangular array runs over 1..MaxCells

ELEMENT_SCALE_SCATTER == 20       \* 0.2
LOOP_SCALE_FACTOR == 85           \* 0.85

\* _array_scale_max_no_overlap(rows, cols): min(100/cols, 100/rows) / 100
_array_scale_max_no_overlap(r, c) == 10000 \div Max2(r, c)

\* the while loop of _triangular_rows_and_cols without the row of the remainder
RECURSIVE TriangularRowsFrom_noRemainder(_, _, _)
TriangularRowsFrom_noRemainder(cnt, k, r) ==
    IF k + r <= cnt THEN <<r>> \o TriangularRowsFrom_noRemainder(cnt, k + r, r + 1)
    ELSE << >>

\* the while loop of _triangular_rows_and_cols and the row of the remainder
RECURSIVE TriangularRowsFrom(_, _, _)
TriangularRowsFrom(cnt, k, r) ==
    IF k + r <= cnt THEN <<r>> \o TriangularRowsFrom(cnt, k + r, r + 1)
    ELSE IF k < cnt THEN <<cnt - k>>
    ELSE << >>

\* _triangular_rows_and_cols(count): rows_list, num_rows, max_cols
_triangular_rows_and_cols(cnt) ==
    LET rows_list == TriangularRowsFrom(cnt, 0, 1)
    IN [rows_list |-> rows_list,
        num_rows |-> Len(rows_list),
        max_cols |-> IF rows_list = << >> THEN 1 ELSE MaxOf(Range(rows_list))]

\* _array_scale_max_no_overlap_triangular(count), count >= 1
_array_scale_max_no_overlap_triangular(cnt) ==
    LET t == _triangular_rows_and_cols(cnt)
    IN 10000 \div Max2(t.max_cols, t.num_rows)

\* _array_scale_max_no_overlap_loop(count, per_edge = 1): sin(pi/n) / (1 + sin(pi/n))
_array_scale_max_no_overlap_loop(cnt) ==
    CASE cnt < 3 -> 5000
      [] cnt = 3 -> 4641
      [] cnt = 4 -> 4142
      [] cnt = 5 -> 3702
      [] cnt = 6 -> 3333
      [] cnt = 7 -> 3026
      [] OTHER -> 2768

\* scale of render_array for the array's type
ArrayCellScale(atype, r, c, cnt) ==
    CASE atype = "rectangular" -> _array_scale_max_no_overlap(r, c)
      [] atype = "loop" -> (_array_scale_max_no_overlap_loop(cnt) * LOOP_SCALE_FACTOR) \div 100
      [] atype = "triangular" -> _array_scale_max_no_overlap_triangular(cnt)
      [] OTHER -> _array_scale_max_no_overlap(2, 2)

NestedEl(tag, r, c, n, dir) == [tag |-> tag, rows |-> r, cols |-> c, n |-> n, direction |-> dir]

\* _layout_effective_scale(el, motifs_dir)
_layout_effective_scale(el) ==
    CASE el.tag = "stack" ->
            IF el.n < 2 THEN 100 * ELEMENT_SCALE_STACK
            ELSE ScaleDraw(_stack_scale_max_in_viewbox(
                     el.n, IF el.direction \in StackDirections THEN el.direction ELSE "up",
                     ELEMENT_SCALE_STACK))
      [] el.tag = "array" -> _array_scale_max_no_overlap(el.rows, el.cols)
      [] el.tag = "scatter" -> 100 * ELEMENT_SCALE_SCATTER
      [] OTHER -> 5000

\* place_scale of render_array: min(scale, nested_scale) / nested_scale under
\* the perpendicular rule, scale otherwise
PlaceScale(atype, el, scale) ==
    IF atype = "rectangular" /\ el.tag # "shape"
    THEN (10000 * Min2(scale, _layout_effective_scale(el))) \div _layout_effective_scale(el)
    ELSE scale

NestedEls ==
    {NestedEl("shape", 0, 0, 0, "")} \cup {NestedEl("scatter", 0, 0, 0, "")}
    \cup {NestedEl("stack", 0, 0, n, d) : n \in 2..4, d \in StackDirections}
    \cup {NestedEl("array", r, c, 0, "") : r \in 1..MaxGrid, c \in 1..MaxGrid}

InitArrayCell ==
    /\ fn \in {"render_array_repeated", "render_array_children", "_layout_effective_scale"}
    /\ pc = "start"
    /\ nested_el \in NestedEls
    /\ IF fn = "_layout_effective_scale"
       THEN array_type = "" /\ rows = 0 /\ cols = 0 /\ count = 0
       ELSE /\ array_type \in {"rectangular", "loop", "triangular"}
            /\ IF array_type = "rectangular"
               THEN rows \in 1..MaxGrid /\ cols \in 1..MaxGrid /\ count = 0
               ELSE rows = 0 /\ cols = 0 /\ count \in 1..MaxCells
    /\ cell_scale = 0
    /\ nested_scale = 0
    /\ place_scale = 0
    /\ min_dist = 0 /\ inside_check = "none" /\ bounds = << >> /\ margin = 0
    /\ symmetry = "none" /\ limit = 0 /\ positions = << >> /\ attempts = 0
    /\ SplitsIdle
    /\ CdpIdle
    /\ GenIdle
    /\ SampleIdle
    /\ FragIdle
    /\ ClipIdle
    /\ BboxIdle
    /\ PathIdle
    /\ MeshIdle
    /\ PartIdle
    /\ RenderIdle
    /\ RetryIdle
    /\ StackIdle

\* what render_array computes for a cell: scale, nested_scale and place_scale
PlaceCell ==
    /\ cell_scale' = ArrayCellScale(array_type, rows, cols, count)
    /\ nested_scale' = IF array_type = "rectangular" /\ nested_el.tag # "shape"
                       THEN _layout_effective_scale(nested_el) ELSE 0
    /\ place_scale' = PlaceScale(array_type, nested_el, cell_scale')
    /\ pc' = "returned"
    /\ UNCHANGED <<fn, array_type, rows, cols, nested_el, splitVars, cdpVars, placeVars,
                   genVars, partVars, renderVars, retryVars, stackVars, meshVars, pathVars, bboxVars, clipVars, fragVars, sampleVars>>

\* render_array, the branch of <repeated>
RenderArrayRepeated ==
    /\ fn = "render_array_repeated" /\ pc = "start"
    /\ PlaceCell

\* render_array, the loop over explicit children
RenderArrayChildren ==
    /\ fn = "render_array_children" /\ pc = "start"
    /\ PlaceCell

\* _layout_effective_scale called on its own
CallLayoutEffectiveScale ==
    /\ fn = "_layout_effective_scale" /\ pc = "start"
    /\ nested_scale' = _layout_effective_scale(nested_el)
    /\ pc' = "returned"
    /\ UNCHANGED <<fn, array_type, rows, cols, nested_el, cell_scale, place_scale,
                   splitVars, cdpVars, placeVars, genVars, partVars, renderVars,
                   retryVars, stackVars, meshVars, pathVars, bboxVars, clipVars, fragVars, sampleVars>>

NextArrayCell == RenderArrayRepeated \/ RenderArrayChildren \/ CallLayoutEffectiveScale

SpecArrayCell == InitArrayCell /\ [][NextArrayCell]_vars

\* how far from its centre the drawing of a nested stack or rectangular array
\* reaches in its own 0..100 space, in hundredths of a unit
ContentHalfExtent(el) ==
    IF el.tag = "stack"
    THEN LET dir == IF el.direction \in StackDirections THEN el.direction ELSE "up"
             pos == _stack_positions(el.n, dir, ELEMENT_SCALE_STACK)
             sd == ScaleDraw(_stack_scale_max_in_viewbox(el.n, dir, ELEMENT_SCALE_STACK))
         IN MaxOf({Abs(pos[i][k] - STACK_CENTRE) : i \in DOMAIN pos, k \in {1, 2}}) + sd \div 2
    ELSE STACK_CENTRE

ArrayCellPlaced ==
    /\ fn \in {"render_array_repeated", "render_array_children"}
    /\ pc = "returned"
    /\ nested_el.tag # "shape"

\* C21 as stated: in a cell holding a nested layout the nested shapes are
\* drawn at the smaller of the cell scale and the nested layout's own scale,
\* and the nested drawing stays inside its cell, for rectangular, loop and
\* triangular arrays alike.
Claim_C21_NestedScaleIsSmaller ==
    ArrayCellPlaced =>
        LET own == _layout_effective_scale(nested_el)
            effective == (place_scale * own) \div 10000
        IN /\ Abs(effective - Min2(cell_scale, own)) <= 1
           /\ nested_el.tag \in {"stack", "array"} =>
                 2 * ContentHalfExtent(nested_el) * place_scale <= cell_scale * 10000

-----------------------------------------------------------------------------
(* nvr_draw_layout.py: array positions and mesh *)

\* the longest list of children an array is given
MaxKids == 6

\* the 100 units of the viewBox, in 1/120 of a unit
CANVAS == 12000

\* _array_positions_rectangular(rows, cols): cell centres, row by row
_array_positions_rectangular(r, c) ==
    LET cell_size == Min2(CANVAS \div c, CANVAS \div r)
        origin_x == CANVAS \div 2 - (c * cell_size) \div 2
        origin_y == CANVAS \div 2 - (r * cell_size) \div 2
    IN [i \in 1..(r * c) |->
            <<origin_x + cell_size * ((i - 1) % c) + cell_size \div 2,
              origin_y + cell_size * ((i - 1) \div c) + cell_size \div 2>>]

\* index (from 0) of the first cell of row r (from 1) of rows_list
RowStart(rows_list, r) == SumSeq(SubSeq(rows_list, 1, r - 1))

\* row (from 1) of cell i (from 0) of rows_list
RowOfCell(rows_list, i) ==
    CHOOSE r \in DOMAIN rows_list :
        RowStart(rows_list, r) <= i /\ i < RowStart(rows_list, r) + rows_list[r]

\* _array_positions_triangular(count, direction); 100.0 / num_rows raises
\* ZeroDivisionError when rows_list is empty
_array_positions_triangular(cnt, dir) ==
    LET t == _triangular_rows_and_cols(cnt)
    IN IF t.num_rows = 0 THEN Raised
       ELSE
        LET cell == Min2(CANVAS \div t.max_cols, CANVAS \div t.num_rows)
            n == SumSeq(t.rows_list)
            raw == [i \in 1..n |->
                      LET ri == RowOfCell(t.rows_list, i - 1)
                          nc == t.rows_list[ri]
                          c == i - 1 - RowStart(t.rows_list, ri)
                      IN <<CANVAS \div 2 - (nc * cell) \div 2 + cell \div 2 + c * cell,
                           (ri - 1) * cell>>]
            xs == {raw[i][1] : i \in 1..n}
            ys == {raw[i][2] : i \in 1..n}
            mid_x == (MinOf(xs) + MaxOf(xs)) \div 2
            mid_y == (MinOf(ys) + MaxOf(ys)) \div 2
            centred == [i \in 1..n |-> <<raw[i][1] - mid_x + CANVAS \div 2,
                                         raw[i][2] - mid_y + CANVAS \div 2>>]
        IN Returned(IF dir = "down"
                    THEN [i \in 1..n |-> <<centred[i][1], CANVAS - centred[i][2]>>]
                    ELSE IF dir = "left"
                    THEN [i \in 1..n |-> <<CANVAS - centred[i][1], centred[i][2]>>]
                    ELSE centred)

\* the test "is_non_null[i] and is_non_null[j]" of the mesh functions, cells
\* counted from 0: "error" is the IndexError of a list that is too short
LinkOutcome(is_non_null, i, j) ==
    IF i >= Len(is_non_null) THEN "error"
    ELSE IF ~is_non_null[i + 1] THEN "skip"
    ELSE IF j >= Len(is_non_null) THEN "error"
    ELSE IF is_non_null[j + 1] THEN "link"
    ELSE "skip"

\* the pairs (i, j) _mesh_segments_rectangular tests, in its order
RECURSIVE RectCandidatesFrom(_, _, _)
RectCandidatesFrom(r, c, i) ==
    IF i >= r * c THEN << >>
    ELSE (IF (i % c) + 1 < c THEN <<(<<i, i + 1>>)>> ELSE << >>)
         \o (IF (i \div c) + 1 < r THEN <<(<<i, i + c>>)>> ELSE << >>)
         \o RectCandidatesFrom(r, c, i + 1)

\* the pairs (i, j) _mesh_segments_triangular tests for the cell at column c
\* of a row of row_len cells that starts at index start, n = len(positions)
TriCellCandidates(r, c, row_len, start, n) ==
    LET i == start + c
        up_left == start - row_len + c - 1
        up_right == start - row_len + c
    IN (IF c + 1 < row_len /\ i + 1 < n THEN <<(<<i, i + 1>>)>> ELSE << >>)
       \o (IF r > 0 /\ c > 0 /\ 0 <= up_left /\ up_left < n
           THEN <<(<<i, up_left>>)>> ELSE << >>)
       \o (IF r > 0 /\ c < row_len - 1 /\ 0 <= up_right /\ up_right < n
           THEN <<(<<i, up_right>>)>> ELSE << >>)

\* the pairs (i, j) _mesh_segments_triangular tests, in its order; r from 0
RECURSIVE TriCandidatesFrom(_, _, _, _)
TriCandidatesFrom(rows_list, n, r, c) ==
    IF r >= Len(rows_list) THEN << >>
    ELSE LET row_len == rows_list[r + 1]
             start == RowStart(rows_list, r + 1)
         IN IF c >= row_len \/ start + c >= n
            THEN TriCandidatesFrom(rows_list, n, r + 1, 0)
            ELSE TriCellCandidates(r, c, row_len, start, n)
                 \o TriCandidatesFrom(rows_list, n, r, c + 1)

\* the segments a mesh function returns for the pairs it tests
MeshOutcome(cands, is_non_null) ==
    IF \E k \in DOMAIN cands : LinkOutcome(is_non_null, cands[k][1], cands[k][2]) = "error"
    THEN Raised
    ELSE Returned(SelectSeq(cands,
             LAMBDA p : LinkOutcome(is_non_null, p[1], p[2]) = "link"))

_mesh_segments_rectangular(r, c, is_non_null) ==
    MeshOutcome(RectCandidatesFrom(r, c, 0), is_non_null)

_mesh_segments_triangular(n, rows_list, is_non_null) ==
    MeshOutcome(TriCandidatesFrom(rows_list, n, 0, 0), is_non_null)

\* lists of children of at most n tags
KidsUpTo(n) == UNION {[1..k -> {"shape", "null"}] : k \in 0..n}

FirstN(s, n) == SubSeq(s, 1, Min2(n, Len(s)))

MeshCallers == {"render_array", "_array_positions_triangular"}

InitMesh ==
    /\ fn \in MeshCallers
    /\ pc = "start"
    /\ array_type \in IF fn = "render_array" THEN {"rectangular", "triangular"}
                      ELSE {"triangular"}
    /\ IF array_type = "rectangular"
       THEN rows \in 1..MaxGrid /\ cols \in 1..MaxGrid /\ count = 0 /\ direction = ""
       ELSE /\ rows = 0 /\ cols = 0
            /\ count \in 0..MaxCells
            /\ direction \in {"up", "down", "left", "right"}
    /\ IF fn = "render_array"
       THEN /\ children \in KidsUpTo(MaxKids)
            /\ draw_mesh \in BOOLEAN
            /\ draw_full_grid \in BOOLEAN
       ELSE children = << >> /\ draw_mesh = FALSE /\ draw_full_grid = FALSE
    /\ segments = << >>
    /\ nested_el = [tag |-> "", rows |-> 0, cols |-> 0, n |-> 0, direction |-> ""]
    /\ cell_scale = 0 /\ nested_scale = 0 /\ place_scale = 0
    /\ min_dist = 0 /\ inside_check = "none" /\ bounds = << >> /\ margin = 0
    /\ symmetry = "none" /\ limit = 0 /\ positions = << >> /\ attempts = 0
    /\ n_children = 0 /\ position_scale = 0 /\ stack_positions = << >>
    /\ scale_max = 0 /\ scale_draw = 0
    /\ SplitsIdle
    /\ CdpIdle
    /\ GenIdle
    /\ SampleIdle
    /\ FragIdle
    /\ ClipIdle
    /\ BboxIdle
    /\ PathIdle
    /\ PartIdle
    /\ RenderIdle
    /\ RetryIdle

MeshFrame ==
    UNCHANGED <<fn, array_type, rows, cols, nested_el, cell_scale, nested_scale,
                place_scale, count, min_dist, inside_check, bounds, margin, symmetry,
                limit, attempts, direction, n_children, position_scale,
                stack_positions, scale_max, scale_draw, draw_mesh, draw_full_grid,
                splitVars, cdpVars, genVars, partVars, renderVars, retryVars, pathVars, bboxVars, clipVars, fragVars, sampleVars>>

\* render_array with explicit children: positions, the children cut to the
\* number of positions, and the mesh
RenderArray ==
    /\ fn = "render_array" /\ pc = "start"
    /\ LET found == IF array_type = "rectangular"
                    THEN Returned(_array_positions_rectangular(rows, cols))
                    ELSE _array_positions_triangular(count, direction)
           n_positions == IF array_type = "rectangular" THEN rows * cols ELSE count
       IN IF ~found.ok
          THEN /\ pc' = "ZeroDivisionError"
               /\ UNCHANGED <<positions, children, segments, pathVars, bboxVars, clipVars, fragVars, sampleVars>>
          ELSE LET pos == FirstN(found.val, n_positions)
                   kids == FirstN(children, n_positions)
                   is_non_null ==
                       IF draw_full_grid THEN [i \in 1..Len(pos) |-> TRUE]
                       ELSE [i \in 1..Len(kids) |-> kids[i] # "null"]
                   mesh ==
                       IF ~(draw_mesh /\ pos # << >>) THEN Returned(<< >>)
                       ELSE IF array_type = "rectangular"
                       THEN _mesh_segments_rectangular(rows, cols, is_non_null)
                       ELSE _mesh_segments_triangular(Len(pos),
                                _triangular_rows_and_cols(n_positions).rows_list,
                                is_non_null)
               IN /\ positions' = pos
                  /\ children' = kids
                  /\ segments' = mesh.val
                  /\ pc' = IF mesh.ok THEN "returned" ELSE "IndexError"
    /\ MeshFrame

\* _array_positions_triangular called on its own
CallArrayPositionsTriangular ==
    /\ fn = "_array_positions_triangular" /\ pc = "start"
    /\ LET found == _array_positions_triangular(count, direction)
       IN /\ positions' = found.val
          /\ pc' = IF found.ok THEN "returned" ELSE "ZeroDivisionError"
    /\ UNCHANGED <<children, segments, pathVars, bboxVars, clipVars, fragVars, sampleVars>>
    /\ MeshFrame

NextMesh == RenderArray \/ CallArrayPositionsTriangular

SpecMesh == InitMesh /\ [][NextMesh]_vars

\* the rows of the cells placed: cells of one row share their cy (their cx
\* when the triangle points left or right keeps the same grouping)
RowNumber(i) == Cardinality({positions[j][2] : j \in 1..i})
NumRowsPlaced == Cardinality({positions[j][2] : j \in DOMAIN positions})
RowSize(k) == Cardinality({i \in DOMAIN positions : RowNumber(i) = k})

Centred ==
    LET xs == {positions[i][1] : i \in DOMAIN positions}
        ys == {positions[i][2] : i \in DOMAIN positions}
    IN /\ MinOf(xs) + MaxOf(xs) = CANVAS
       /\ MinOf(ys) + MaxOf(ys) = CANVAS

TriangularPlaced ==
    /\ array_type = "triangular"
    /\ pc = "returned"

BothNonNull(seg) ==
    /\ seg[1] < Len(children) /\ children[seg[1] + 1] # "null"
    /\ seg[2] < Len(children) /\ children[seg[2] + 1] # "null"

RectNeighbours(i, j) ==
    \/ j = i + 1 /\ i \div cols = j \div cols
    \/ j = i + cols

\* C27 as stated: rendering an array with a mesh never fails on an index out
\* of range, also with fewer children than cells and draw_full_grid false,
\* and then links only neighbouring cells that both hold a non-null child.
Claim_C27_MeshNoIndexError ==
    (fn = "render_array" /\ pc # "start" /\ draw_mesh) =>
        /\ pc # "IndexError"
        /\ (~draw_full_grid /\ array_type = "rectangular") =>
              \A k \in DOMAIN segments :
                  /\ BothNonNull(segments[k])
                  /\ RectNeighbours(segments[k][1], segments[k][2])

\* row (from 0) and column (from 0) of cell i of the triangle of count cells
TriRow(i) == RowOfCell(_triangular_rows_and_cols(count).rows_list, i) - 1
TriCol(i) == i - RowStart(_triangular_rows_and_cols(count).rows_list, TriRow(i) + 1)

\* cell i at (r, c) and cell j: j is the right neighbour of i, or j is at
\* column c - 1 or c of row r - 1
TriAdjacent(i, j) ==
    \/ TriRow(j) = TriRow(i) /\ TriCol(j) = TriCol(i) + 1
    \/ TriRow(j) = TriRow(i) - 1 /\ TriCol(j) \in {TriCol(i) - 1, TriCol(i)}

TriangularMeshDrawn ==
    /\ fn = "render_array" /\ pc = "returned"
    /\ array_type = "triangular"
    /\ draw_mesh
    /\ Len(children) = count

\* C28 as stated: in a triangular mesh every segment joins two adjacent
\* cells, (r, c) with its right neighbour or with column c - 1 or c of row
\* r - 1, and every adjacent pair of non-null cells is joined.
Claim_C28_TriangularMeshAdjacent ==
    TriangularMeshDrawn =>
        LET linked == {<<segments[k][1], segments[k][2]>> : k \in DOMAIN segments}
            non_null(i) == draw_full_grid \/ children[i + 1] # "null"
        IN /\ \A p \in linked : TriAdjacent(p[1], p[2])
           /\ \A i, j \in 0..(count - 1) :
                 (TriAdjacent(i, j) /\ non_null(i) /\ non_null(j))
                     => <<i, j>> \in linked

-----------------------------------------------------------------------------
(* nvr_draw_container_svg.py: _scale_path_d and _rotate_path_d *)

\* the most commands a path holds after its leading M
MaxTokens == 2

\* how many coordinate groups one command letter is followed by
GroupCounts == {1, 2}

PathLetters == {"M", "L", "H", "V", "C", "Q", "A", "Z"}

\* how many numbers one coordinate group of a command takes
Arity(cmd) ==
    CASE cmd \in {"M", "L"} -> 2
      [] cmd \in {"H", "V"} -> 1
      [] cmd = "C" -> 6
      [] cmd = "Q" -> 4
      [] cmd = "A" -> 7
      [] OTHER -> 0

\* the numbers after a command letter: the k-th is base + 10 * k, the two
\* flags of an arc are 0 and 1
NumsOf(cmd, groups, base) ==
    [k \in 1..(Arity(cmd) * groups) |->
        IF cmd = "A" /\ (k - 1) % 7 = 3 THEN 0
        ELSE IF cmd = "A" /\ (k - 1) % 7 = 4 THEN 1
        ELSE base + 10 * k]

PathTokens(base) ==
    {[cmd |-> c, nums |-> NumsOf(c, g, base)] :
        c \in PathLetters \ {"Z"}, g \in GroupCounts} \cup {[cmd |-> "Z", nums |-> << >>]}

\* path data: a leading M and at most n further commands
PathsUpTo(n, base) ==
    {<<m>> \o rest :
        m \in {t \in PathTokens(base) : t.cmd = "M"},
        rest \in UNION {[1..k -> PathTokens(base)] : k \in 0..n}}

\* f"{x:.2f}" of a whole number, in hundredths
Fmt2(x) == 100 * x

\* the coordinate groups the loops over one token visit: command, numbers of
\* the group, and whether it is the first group of its token (j == 0)
GroupsOfToken(t) ==
    IF t.cmd = "Z" THEN <<[cmd |-> "Z", nums |-> << >>, first |-> TRUE]>>
    ELSE [g \in 1..(Len(t.nums) \div Arity(t.cmd)) |->
            [cmd |-> t.cmd,
             nums |-> SubSeq(t.nums, (g - 1) * Arity(t.cmd) + 1, g * Arity(t.cmd)),
             first |-> g = 1]]

RECURSIVE GroupsOf(_)
GroupsOf(tokens) ==
    IF tokens = << >> THEN << >>
    ELSE GroupsOfToken(Head(tokens)) \o GroupsOf(Tail(tokens))

\* cur_orig after a coordinate group
CurOrigAfter(g, cur_orig) ==
    CASE g.cmd \in {"M", "L"} -> <<g.nums[1], g.nums[2]>>
      [] g.cmd = "H" -> <<g.nums[1], cur_orig[2]>>
      [] g.cmd = "V" -> <<cur_orig[1], g.nums[1]>>
      [] g.cmd = "C" -> <<g.nums[5], g.nums[6]>>
      [] g.cmd = "Q" -> <<g.nums[3], g.nums[4]>>
      [] g.cmd = "A" -> <<g.nums[6], g.nums[7]>>
      [] OTHER -> cur_orig

\* scale_pt(x, y) of _scale_path_d, rot_pt(x, y) of _rotate_path_d (for a
\* multiple of 90 degrees); tr holds which of the two, the centre and the
\* scale or the angle
Cos90(a) == CASE a % 360 = 0 -> 1 [] a % 360 = 180 -> -1 [] OTHER -> 0
Sin90(a) == CASE a % 360 = 90 -> 1 [] a % 360 = 270 -> -1 [] OTHER -> 0

TransformPt(tr, x, y) ==
    IF tr.kind = "scale"
    THEN <<tr.cx + (x - tr.cx) * tr.arg, tr.cy + (y - tr.cy) * tr.arg>>
    ELSE <<tr.cx + (x - tr.cx) * Cos90(tr.arg) - (y - tr.cy) * Sin90(tr.arg),
           tr.cy + (x - tr.cx) * Sin90(tr.arg) + (y - tr.cy) * Cos90(tr.arg)>>

\* the first three numbers written for an arc: rx, ry scaled, or the
\* x-axis rotation turned by the angle
ArcHead(tr, g) ==
    IF tr.kind = "scale"
    THEN <<Fmt2(g.nums[1] * tr.arg), Fmt2(g.nums[2] * tr.arg), Fmt2(g.nums[3])>>
    ELSE <<Fmt2(g.nums[1]), Fmt2(g.nums[2]), Fmt2(g.nums[3] + tr.arg)>>

\* what the body of the loop appends to out for one coordinate group
OutCommand(g, cur_orig, tr) ==
    LET cur == TransformPt(tr, CurOrigAfter(g, cur_orig)[1], CurOrigAfter(g, cur_orig)[2])
        end_pt == <<Fmt2(cur[1]), Fmt2(cur[2])>>
    IN CASE g.cmd = "M" -> [cmd |-> IF g.first THEN "M" ELSE "L", nums |-> end_pt]
         [] g.cmd \in {"L", "H", "V"} -> [cmd |-> "L", nums |-> end_pt]
         [] g.cmd = "C" ->
                LET p1 == TransformPt(tr, g.nums[1], g.nums[2])
                    p2 == TransformPt(tr, g.nums[3], g.nums[4])
                IN [cmd |-> "C",
                    nums |-> <<Fmt2(p1[1]), Fmt2(p1[2]), Fmt2(p2[1]), Fmt2(p2[2])>> \o end_pt]
         [] g.cmd = "Q" ->
                LET p1 == TransformPt(tr, g.nums[1], g.nums[2])
                IN [cmd |-> "Q", nums |-> <<Fmt2(p1[1]), Fmt2(p1[2])>> \o end_pt]
         [] g.cmd = "A" ->
                [cmd |-> "A",
                 nums |-> ArcHead(tr, g) \o <<g.nums[4], g.nums[5]>> \o end_pt]
         [] OTHER -> [cmd |-> "Z", nums |-> << >>]

\* cur_orig when the loop reaches coordinate group k
RECURSIVE CurOrigBefore(_, _)
CurOrigBefore(groups, k) ==
    IF k <= 1 THEN <<0, 0>>
    ELSE CurOrigAfter(groups[k - 1], CurOrigBefore(groups, k - 1))

\* the loop over the tokens: out
Rewrite(groups, tr) ==
    [k \in DOMAIN groups |-> OutCommand(groups[k], CurOrigBefore(groups, k), tr)]

\* _scale_path_d that writes nothing for H and V
_scale_path_d_noHV(tokens, cx, cy, scale) ==
    Rewrite(GroupsOf(SelectSeq(tokens, LAMBDA t : t.cmd \notin {"H", "V"})),
            [kind |-> "scale", cx |-> cx, cy |-> cy, arg |-> scale])

\* _scale_path_d(path_d, cx, cy, scale)
_scale_path_d(tokens, cx, cy, scale) ==
    Rewrite(GroupsOf(tokens), [kind |-> "scale", cx |-> cx, cy |-> cy, arg |-> scale])

\* _rotate_path_d(path_d, angle_deg, cx, cy), angle_deg a multiple of 90
_rotate_path_d(tokens, angle_deg, cx, cy) ==
    Rewrite(GroupsOf(tokens), [kind |-> "rotate", cx |-> cx, cy |-> cy, arg |-> angle_deg])

PathCallers == {"_scale_path_d", "_rotate_path_d"}

InitPath ==
    /\ fn \in PathCallers
    /\ pc = "start"
    /\ path_d \in UNION {PathsUpTo(MaxTokens, base) : base \in {0, 5}}
    /\ path_arg \in IF fn = "_scale_path_d" THEN {1, 2} ELSE {90, 180}
    /\ path_out = << >>
    /\ SplitsIdle
    /\ CdpIdle
    /\ GenIdle
    /\ SampleIdle
    /\ FragIdle
    /\ ClipIdle
    /\ BboxIdle
    /\ PartIdle
    /\ RenderIdle
    /\ RetryIdle
    /\ StackIdle
    /\ ArrayIdle
    /\ MeshIdle
    /\ PlaceIdle

PathFrame ==
    UNCHANGED <<fn, path_d, path_arg, splitVars, cdpVars, placeVars, genVars, partVars,
                renderVars, retryVars, stackVars, arrayVars, meshVars, bboxVars, clipVars, fragVars, sampleVars>>

CallScalePathD ==
    /\ fn = "_scale_path_d" /\ pc = "start"
    /\ path_out' = _scale_path_d(path_d, 50, 50, path_arg)
    /\ pc' = "returned"
    /\ PathFrame

CallRotatePathD ==
    /\ fn = "_rotate_path_d" /\ pc = "start"
    /\ path_out' = _rotate_path_d(path_d, path_arg, 50, 50)
    /\ pc' = "returned"
    /\ PathFrame

NextPath == CallScalePathD \/ CallRotatePathD

SpecPath == InitPath /\ [][NextPath]_vars

LettersOf(cmds) == [k \in DOMAIN cmds |-> cmds[k].cmd]

PathRewritten == fn \in PathCallers /\ pc = "returned"

\* C23 as stated: the string returned has the command letters of the string
\* given, in the same order; only the numbers change.
Claim_C23_SameLetters ==
    PathRewritten => LettersOf(path_out) = LettersOf(path_d)

\* the letter written for one coordinate group
LetterWritten(g) ==
    IF g.cmd \in {"H", "V"} \/ (g.cmd = "M" /\ ~g.first) THEN "L" ELSE g.cmd

\* C23 amended: the string returned has one command for each coordinate group
\* of the string given, in the same order, with as many numbers as the group:
\* M, L, C, Q, A and Z keep their letter, every H and V value and every
\* further pair after an M is written as an L with the absolute end point.
Claim_C23_LetterPerGroup ==
    PathRewritten =>
        LET groups == GroupsOf(path_d)
        IN /\ Len(path_out) = Len(groups)
           /\ \A k \in DOMAIN groups :
                 /\ path_out[k].cmd = LetterWritten(groups[k])
                 /\ Len(path_out[k].nums) = Arity(path_out[k].cmd)

\* a path with an H and a repeated L has been rewritten
Witness_C23_HBecomesL ==
    /\ PathRewritten
    /\ \E k \in DOMAIN path_d : path_d[k].cmd = "H"
    /\ \E k \in DOMAIN path_d : path_d[k].cmd = "L" /\ Len(path_d[k].nums) = 4
    /\ Len(path_out) > Len(path_d)

-----------------------------------------------------------------------------
(* nvr_draw_container_svg.py: get_shape_geometry and get_shape_bbox *)

\* the longest list of vertices get_shape_bbox is called with on its own
MaxVertices == 2

SEMICIRCLE_RADIUS == 42000          \* 42.0, in thousandths of a unit
SEMICIRCLE_CY == 67500              \* cy_flat = 67.5
HALF == 50000                       \* 50.0

\* the radius of the circle, in thousandths of a unit
CircleRadius == CIRCLE_RADIUS * 250

PolygonKeys == {"square", "rectangle", "cross", "arrow", "triangle", "hexagon",
                "right_angled_triangle"}
ShapeKeys == PolygonKeys \cup {"circle", "semicircle"}

\* the vertices get_shape_geometry returns; those of triangle, hexagon and
\* right_angled_triangle rounded to a thousandth, those of semicircle the
\* samples k = 0, 12, 24 of the arc and the closing point
ShapeVertices(key) ==
    CASE key = "square" -> <<(<<17000, 17000>>), <<83000, 17000>>, <<83000, 83000>>,
                             <<17000, 83000>>>>
      [] key = "rectangle" -> <<(<<15000, 28125>>), <<85000, 28125>>, <<85000, 71875>>,
                                <<15000, 71875>>>>
      [] key = "cross" -> <<(<<36000, 15000>>), <<64000, 15000>>, <<64000, 36000>>,
                            <<85000, 36000>>, <<85000, 64000>>, <<64000, 64000>>,
                            <<64000, 85000>>, <<36000, 85000>>, <<36000, 64000>>,
                            <<15000, 64000>>, <<15000, 36000>>, <<36000, 36000>>>>
      [] key = "arrow" -> <<(<<15000, 25000>>), <<35000, 25000>>, <<35000, 15000>>,
                            <<85000, 50000>>, <<35000, 85000>>, <<35000, 75000>>,
                            <<15000, 75000>>>>
      [] key = "triangle" -> <<(<<50000, 15500>>), <<90703, 86000>>, <<9297, 86000>>>>
      [] key = "hexagon" -> <<(<<70000, 15359>>), <<90000, 50000>>, <<70000, 84641>>,
                              <<30000, 84641>>, <<10000, 50000>>, <<30000, 15359>>>>
      [] key = "right_angled_triangle" ->
                <<(<<8000, 92000>>), <<9414, 9414>>, <<90586, 90586>>>>
      [] key = "semicircle" ->
                <<(<<HALF - SEMICIRCLE_RADIUS, SEMICIRCLE_CY>>),
                  <<HALF, SEMICIRCLE_CY - SEMICIRCLE_RADIUS>>,
                  <<HALF + SEMICIRCLE_RADIUS, SEMICIRCLE_CY>>,
                  <<HALF - SEMICIRCLE_RADIUS, SEMICIRCLE_CY>>>>
      [] OTHER -> << >>

\* (shape or "").strip().lower()
StripLower(written_key) == written_key.key

\* get_shape_bbox(shape, vertices, path_d)
get_shape_bbox(written_key, verts) ==
    LET s == StripLower(written_key)
    IN IF s = "circle"
       THEN <<HALF - CircleRadius, HALF + CircleRadius,
              HALF - CircleRadius, HALF + CircleRadius>>
       ELSE IF s = "semicircle"
       THEN <<HALF - SEMICIRCLE_RADIUS, HALF + SEMICIRCLE_RADIUS,
              SEMICIRCLE_CY - SEMICIRCLE_RADIUS, SEMICIRCLE_CY + SEMICIRCLE_RADIUS>>
       ELSE IF verts # << >>
       THEN <<MinOf({verts[i][1] : i \in DOMAIN verts}),
              MaxOf({verts[i][1] : i \in DOMAIN verts}),
              MinOf({verts[i][2] : i \in DOMAIN verts}),
              MaxOf({verts[i][2] : i \in DOMAIN verts})>>
       ELSE <<15000, 85000, 15000, 85000>>

\* the ways a shape key is written in an attribute
Writings == {"lower", "upper", "padded"}

\* the points the vertices of a direct call are drawn from
VertexPoints == {<<x, y>> : x \in {15000, 85000}, y \in {15000, 50000, 85000}}

BboxCallers == {"render_shape_to_svg", "get_shape_bbox"}

InitBbox ==
    /\ fn \in BboxCallers
    /\ pc = "start"
    /\ shape_arg \in [key : ShapeKeys \cup {"blob"}, written : Writings]
    /\ IF fn = "get_shape_bbox"
       THEN vertices \in UNION {[1..k -> VertexPoints] : k \in 0..MaxVertices}
       ELSE vertices = << >>
    /\ bbox = << >>
    /\ SplitsIdle
    /\ CdpIdle
    /\ GenIdle
    /\ SampleIdle
    /\ FragIdle
    /\ ClipIdle
    /\ PartIdle
    /\ RenderIdle
    /\ RetryIdle
    /\ StackIdle
    /\ ArrayIdle
    /\ MeshIdle
    /\ PathIdle
    /\ PlaceIdle

BboxFrame ==
    UNCHANGED <<fn, shape_arg, splitVars, cdpVars, placeVars, genVars, partVars,
                renderVars, retryVars, stackVars, arrayVars, meshVars, pathVars, clipVars, fragVars, sampleVars>>

\* render_shape_to_svg up to its bbox: get_shape_geometry, then get_shape_bbox
\* (ValueError for a key get_shape_geometry does not know)
RenderShapeBbox ==
    /\ fn = "render_shape_to_svg" /\ pc = "start"
    /\ IF StripLower(shape_arg) \notin ShapeKeys
       THEN pc' = "ValueError" /\ UNCHANGED <<vertices, bbox, clipVars, fragVars, sampleVars>>
       ELSE /\ vertices' = ShapeVertices(StripLower(shape_arg))
            /\ bbox' = get_shape_bbox(shape_arg, vertices')
            /\ pc' = "returned"
    /\ BboxFrame

\* get_shape_bbox called on its own
CallGetShapeBbox ==
    /\ fn = "get_shape_bbox" /\ pc = "start"
    /\ bbox' = get_shape_bbox(shape_arg, vertices)
    /\ pc' = "returned"
    /\ UNCHANGED vertices
    /\ BboxFrame

NextBbox == RenderShapeBbox \/ CallGetShapeBbox

SpecBbox == InitBbox /\ [][NextBbox]_vars

\* what the drawn shape covers: the circle x = 50 +- r, y = 50 +- r; the
\* semicircle from its arc's top cy - r down to its flat side cy; a polygon
\* from the least to the greatest coordinate of its vertices
ShapeExtent(key, verts) ==
    IF key = "circle"
    THEN <<HALF - CircleRadius, HALF + CircleRadius, HALF - CircleRadius, HALF + CircleRadius>>
    ELSE IF key = "semicircle"
    THEN <<HALF - SEMICIRCLE_RADIUS, HALF + SEMICIRCLE_RADIUS,
           SEMICIRCLE_CY - SEMICIRCLE_RADIUS, SEMICIRCLE_CY>>
    ELSE <<MinOf({verts[i][1] : i \in DOMAIN verts}), MaxOf({verts[i][1] : i \in DOMAIN verts}),
           MinOf({verts[i][2] : i \in DOMAIN verts}), MaxOf({verts[i][2] : i \in DOMAIN verts})>>

\* C24 as stated: for every shape key the bounding box returned is exactly
\* what the shape covers: least and greatest vertex coordinates of a polygon,
\* the extent of the curve of the circle and of the semicircle.
Claim_C24_BboxIsExtent ==
    (fn = "render_shape_to_svg" /\ pc = "returned") =>
        bbox = ShapeExtent(shape_arg.key, vertices)

-----------------------------------------------------------------------------
(* nvr_draw_container_svg.py: linear partitions of a polygon *)

\* the most cuts between sections
MaxCuts == 2

\* sixteenths of a viewBox unit per unit
SIXTEENTHS == 16

\* p / q rounded to the nearest whole number, q > 0
RoundDiv(p, q) == (2 * p + q) \div (2 * q)

\* a length in thousandths of a unit, in sixteenths
ToSixteenths(x) == RoundDiv(x * SIXTEENTHS, 1000)

RECURSIVE Flatten(_)
Flatten(ss) == IF ss = << >> THEN << >> ELSE Head(ss) \o Flatten(Tail(ss))

Reversed(s) == [i \in DOMAIN s |-> s[Len(s) + 1 - i]]

\* twice _polygon_signed_area(vertices)
TwiceSignedArea(verts) ==
    IF Len(verts) < 3 THEN 0
    ELSE LET n == Len(verts)
         IN SumSeq([i \in 1..n |->
                verts[i][1] * verts[(i % n) + 1][2] - verts[(i % n) + 1][1] * verts[i][2]])

\* _ensure_ccw(vertices)
_ensure_ccw(verts) ==
    IF Len(verts) < 3 \/ TwiceSignedArea(verts) >= 0 THEN verts ELSE Reversed(verts)

\* t * len for t = 0: the crossing point put on the first end of the edge
ClampedShare_firstEnd(num, den, len) == 0

\* t * len for t = max(0, min(1, num / den)), den # 0
ClampedShare(num, den, len) ==
    LET n0 == IF den < 0 THEN 0 - num ELSE num
        d0 == Abs(den)
    IN RoundDiv(Max2(0, Min2(d0, n0)) * len, d0)

\* intersect_y(a, b, y)
intersect_y(a, b, y) ==
    IF b[2] = a[2] THEN <<RoundDiv(a[1] + b[1], 2), y>>
    ELSE <<a[1] + ClampedShare(y - a[2], b[2] - a[2], b[1] - a[1]), y>>

\* intersect_x(a, b, x)
intersect_x(a, b, x) ==
    IF b[1] = a[1] THEN <<x, RoundDiv(a[2] + b[2], 2)>>
    ELSE <<x, a[2] + ClampedShare(x - a[1], b[1] - a[1], b[2] - a[2])>>

\* intersect_slash(a, b, k)
intersect_slash(a, b, k) ==
    LET denom == (b[1] - a[1]) + (b[2] - a[2])
    IN IF denom = 0 THEN <<RoundDiv(a[1] + b[1], 2), RoundDiv(a[2] + b[2], 2)>>
       ELSE <<a[1] + ClampedShare(k - a[1] - a[2], denom, b[1] - a[1]),
              a[2] + ClampedShare(k - a[1] - a[2], denom, b[2] - a[2])>>

\* intersect_backslash(a, b, k)
intersect_backslash(a, b, k) ==
    LET denom == (b[1] - a[1]) - (b[2] - a[2])
    IN IF denom = 0 THEN <<RoundDiv(a[1] + b[1], 2), RoundDiv(a[2] + b[2], 2)>>
       ELSE <<a[1] + ClampedShare(k - a[1] + a[2], denom, b[1] - a[1]),
              a[2] + ClampedShare(k - a[1] + a[2], denom, b[2] - a[2])>>

\* the coordinate a half-plane bounds: y, x, x + y or x - y
PlaneCoord(plane, p) ==
    CASE plane.coord = "y" -> p[2]
      [] plane.coord = "x" -> p[1]
      [] plane.coord = "x+y" -> p[1] + p[2]
      [] OTHER -> p[1] - p[2]

\* inside(x, y): the lambda the band functions pass
Inside(plane, p) ==
    IF plane.at_least THEN PlaneCoord(plane, p) >= plane.bound
    ELSE PlaneCoord(plane, p) <= plane.bound

\* intersect(a, b): the lambda the band functions pass
Intersect(plane, a, b) ==
    CASE plane.coord = "y" -> intersect_y(a, b, plane.bound)
      [] plane.coord = "x" -> intersect_x(a, b, plane.bound)
      [] plane.coord = "x+y" -> intersect_slash(a, b, plane.bound)
      [] OTHER -> intersect_backslash(a, b, plane.bound)

\* _clip_polygon_half_plane(vertices, inside, intersect)
_clip_polygon_half_plane(verts, plane) ==
    LET n == Len(verts)
    IN Flatten([i \in 1..n |->
            LET a == verts[i]
                b == verts[(i % n) + 1]
            IN (IF Inside(plane, a) THEN <<a>> ELSE << >>)
               \o (IF Inside(plane, a) # Inside(plane, b)
                   THEN <<Intersect(plane, a, b)>> ELSE << >>)])

\* step1 and step2 of the four band functions
ClipToBand(verts, coord, lo, hi) ==
    _clip_polygon_half_plane(
        _clip_polygon_half_plane(verts, [coord |-> coord, at_least |-> TRUE, bound |-> lo]),
        [coord |-> coord, at_least |-> FALSE, bound |-> hi])

_clip_polygon_to_horizontal_band(verts, y_lo, y_hi) == ClipToBand(verts, "y", y_lo, y_hi)

_clip_polygon_to_vertical_band(verts, x_lo, x_hi) == ClipToBand(verts, "x", x_lo, x_hi)

_clip_polygon_to_diagonal_slash_band(verts, k_lo, k_hi) == ClipToBand(verts, "x+y", k_lo, k_hi)

_clip_polygon_to_diagonal_backslash_band(verts, k_lo, k_hi) ==
    ClipToBand(verts, "x-y", k_lo, k_hi)

\* lo + (hi - lo) * percent / 100.0
Along(lo, hi, percent) == lo + RoundDiv((hi - lo) * percent, 100)

\* clip_verts of the section from lo to hi percent, for a linear partition
SectionClip(dir, verts, box, lo, hi) ==
    LET x_min == box[1]
        x_max == box[2]
        y_min == box[3]
        y_max == box[4]
    IN CASE dir = "horizontal" ->
              _clip_polygon_to_horizontal_band(verts, Along(y_min, y_max, lo),
                                               Along(y_min, y_max, hi))
         [] dir = "vertical" ->
              _clip_polygon_to_vertical_band(verts, Along(x_min, x_max, lo),
                                             Along(x_min, x_max, hi))
         [] dir = "diagonal_slash" ->
              LET sum_lo == Along(x_min + y_min, x_max + y_max, lo)
                  sum_hi == Along(x_min + y_min, x_max + y_max, hi)
              IN _clip_polygon_to_diagonal_slash_band(verts, Min2(sum_lo, sum_hi),
                                                      Max2(sum_lo, sum_hi))
         [] OTHER ->
              LET diff_lo == Along(x_max - y_min, x_min - y_max, lo)
                  diff_hi == Along(x_max - y_min, x_min - y_max, hi)
              IN _clip_polygon_to_diagonal_backslash_band(verts, Min2(diff_lo, diff_hi),
                                                          Max2(diff_lo, diff_hi))

\* contiguous section bounds 0..100 with the given cuts
ContiguousBounds(cs) ==
    [i \in 1..(Len(cs) + 1) |->
        <<IF i = 1 THEN 0 ELSE cs[i - 1], IF i > Len(cs) THEN 100 ELSE cs[i]>>]

\* the vertices and the bbox a polygon shape is partitioned with, in sixteenths
Vertices16(key) ==
    [i \in DOMAIN ShapeVertices(key) |->
        <<ToSixteenths(ShapeVertices(key)[i][1]), ToSixteenths(ShapeVertices(key)[i][2])>>]
Bbox16(key) ==
    LET box == get_shape_bbox([key |-> key, written |-> "lower"], ShapeVertices(key))
    IN [i \in 1..4 |-> ToSixteenths(box[i])]

\* the polygons build_partitioned_sections fills for a linear partition of a
\* shape with at least three vertices: one for every section whose clip is
\* not empty
LinearSections(key, dir, section_bounds) ==
    LET verts == _ensure_ccw(Vertices16(key))
        clips == [i \in DOMAIN section_bounds |->
                    SectionClip(dir, verts, Bbox16(key),
                                section_bounds[i][1], section_bounds[i][2])]
    IN SelectSeq(clips, LAMBDA c : c # << >>)

LinearDirections == {"horizontal", "vertical", "diagonal_slash", "diagonal_backslash"}

CutPercents == {25, 40, 50, 75}

\* ascending lists of at most n cuts
CutsUpTo(n) ==
    {cs \in UNION {[1..k -> CutPercents] : k \in 0..n} :
        \A i \in 1..(Len(cs) - 1) : cs[i] < cs[i + 1]}

InitClip ==
    /\ fn = "build_partitioned_sections"
    /\ pc = "start"
    /\ shape_arg \in [key : PolygonKeys \cup {"semicircle"}, written : {"lower"}]
    /\ partition_direction \in LinearDirections
    /\ cuts \in CutsUpTo(MaxCuts)
    /\ pieces = << >>
    /\ vertices = << >> /\ bbox = << >>
    /\ section_count = << >> /\ fill_parts = << >> /\ partition_lines = << >>
    /\ SplitsIdle
    /\ CdpIdle
    /\ GenIdle
    /\ SampleIdle
    /\ FragIdle
    /\ RenderIdle
    /\ RetryIdle
    /\ StackIdle
    /\ ArrayIdle
    /\ MeshIdle
    /\ PathIdle
    /\ PlaceIdle

\* build_partitioned_sections for a linear partition of a polygon
BuildLinearSections ==
    /\ fn = "build_partitioned_sections" /\ pc = "start"
    /\ pieces' = LinearSections(shape_arg.key, partition_direction, ContiguousBounds(cuts))
    /\ pc' = "returned"
    /\ UNCHANGED <<fn, cuts, splitVars, cdpVars, placeVars, genVars, partVars, renderVars,
                   retryVars, stackVars, arrayVars, meshVars, pathVars, bboxVars, fragVars, sampleVars>>

NextClip == BuildLinearSections

SpecClip == InitClip /\ [][NextClip]_vars

\* twice the area of a polygon
TwiceArea(verts) == Abs(TwiceSignedArea(verts))

\* twice the area that rounding the crossing points to a sixteenth can add
\* or remove: half a sixteenth at each end of a cut, along the box's width
\* and height, for both sides of every cut
RoundingAllowance(key, ncuts) ==
    LET box == Bbox16(key)
    IN 2 * ncuts * ((box[2] - box[1]) + (box[4] - box[3]))

LinearSectionsBuilt == fn = "build_partitioned_sections" /\ pc = "returned"

\* C25: for a linear partition with contiguous bounds 0..100 the areas of
\* the clipped polygons add up to the area of the whole shape, within the
\* tolerance of rounding.
Claim_C25_AreasAddUp ==
    LinearSectionsBuilt =>
        Abs(SumSeq([i \in DOMAIN pieces |-> TwiceArea(pieces[i])])
                - TwiceArea(Vertices16(shape_arg.key)))
            <= RoundingAllowance(shape_arg.key, Len(cuts))

\* a concave shape cut twice along a diagonal into three polygons
Witness_C25_CrossCutTwice ==
    /\ LinearSectionsBuilt
    /\ shape_arg.key = "cross"
    /\ partition_direction = "diagonal_slash"
    /\ Len(cuts) = 2
    /\ Len(pieces) = 3
    /\ \A i \in DOMAIN pieces : TwiceArea(pieces[i]) > 0

-----------------------------------------------------------------------------
(* nvr_draw_layout.py _shape_to_svg_fragment and the single-shape renderer *)

\* the most <section> children a partition holds
MaxSectionEls == 2

\* the keyword parameters of single_shape_renderer.render_shape_to_svg
RenderShapeKeywords == {"motifs_dir"}

\* keys of PARTITION_TYPE_MAP and the two diagonal names _parse_partition takes
PartitionTypeNames == {"horizontal", "vertical", "diagonal", "concentric", "radial",
                       "diagonal_slash", "diagonal_backslash"}

\* the outcome of a call: the exception raised ("" for none) and the value
Outcome(exc, val) == [exc |-> exc, val |-> val]

\* single_shape_renderer.render_shape_to_svg(shape_el, motifs_dir=...) up to
\* the call of the partition engine
SingleShapeRender(el) ==
    IF el.nested \in {"chaotic", "stack", "array"} THEN Outcome("ValueError", "")
    ELSE IF el.key \notin ShapeKeys THEN Outcome("ValueError", "")
    ELSE IF el.partition = None THEN Outcome("", "plain")
    ELSE IF el.partition[1] \notin PartitionTypeNames THEN Outcome("ValueError", "")
    ELSE IF el.sections = 0 THEN Outcome("ValueError", "")
    ELSE Outcome("", "partitioned")

\* a call passing the keywords in passed to a function that takes those in
\* accepted: TypeError for an unexpected keyword argument
CallWithKeywords(passed, accepted, result) ==
    IF passed \subseteq accepted THEN result ELSE Outcome("TypeError", "")

\* _shape_to_svg_fragment(shape_el, motifs_dir, unique_id)
_shape_to_svg_fragment(el) ==
    IF el.partition # None /\ el.nested \notin {"scatter", "stack", "array"}
    THEN CallWithKeywords({"motifs_dir", "shape_clip_id"}, RenderShapeKeywords,
                          SingleShapeRender(el))
    ELSE IF el.key \notin ShapeKeys THEN Outcome("ValueError", "")
    ELSE Outcome("", "plain")

ShapeEls ==
    [key : {"square", "circle", "", "blob"},
     partition : {None} \cup {Some(t) : t \in {"horizontal", "radial", "bogus"}},
     sections : 0..MaxSectionEls,
     nested : {"", "scatter", "stack", "array"}]

InitFragment ==
    /\ fn = "_element_to_fragment"
    /\ pc = "start"
    /\ parent_tag \in {"stack", "array", "scatter"}
    /\ shape_el \in {el \in ShapeEls : el.partition = None => el.sections = 0}
    /\ fragment = ""
    /\ SplitsIdle
    /\ CdpIdle
    /\ GenIdle
    /\ SampleIdle
    /\ PartIdle
    /\ RenderIdle
    /\ RetryIdle
    /\ StackIdle
    /\ ArrayIdle
    /\ MeshIdle
    /\ PathIdle
    /\ BboxIdle
    /\ ClipIdle
    /\ PlaceIdle

\* _element_to_fragment on a <shape> child of a stack, an array or a scatter
ShapeToSvgFragment ==
    /\ fn = "_element_to_fragment" /\ pc = "start"
    /\ LET out == _shape_to_svg_fragment(shape_el)
       IN /\ fragment' = out.val
          /\ pc' = IF out.exc = "" THEN "returned" ELSE out.exc
    /\ UNCHANGED <<fn, parent_tag, shape_el, splitVars, cdpVars, placeVars, genVars,
                   partVars, renderVars, retryVars, stackVars, arrayVars, meshVars,
                   pathVars, bboxVars, clipVars, sampleVars>>

NextFragment == ShapeToSvgFragment

SpecFragment == InitFragment /\ [][NextFragment]_vars

-----------------------------------------------------------------------------
(* sample-nvr-odd-one-out/gen_question_template2.py, shading_sequence as    *)
(* the differentiator                                                        *)

\* how many of the shading sequences are drawn from
MaxSequences == 6

\* SHADING_SEQUENCES, each string as the list sequence.split(",") gives
SHADING_SEQUENCES ==
    << <<"white", "grey">>, <<"grey", "white">>, <<"white", "grey_light">>,
       <<"grey_light", "white">>, <<"grey", "white", "grey_light">>,
       <<"white", "grey", "diagonal_slash">>, <<"grey", "white", "diagonal_slash">>,
       <<"white", "diagonal_slash">>, <<"diagonal_slash", "white">>,
       <<"grey", "diagonal_slash">>, <<"diagonal_slash", "grey">>,
       <<"white", "grey", "white">>, <<"grey", "white", "grey">>,
       <<"white", "vertical_lines">>, <<"vertical_lines", "white">>,
       <<"grey", "white", "grey_light", "white">>, <<"white", "grey_light", "grey">> >>

NUM_SECTIONS_POOL == <<2, 3, 4>>

SequencePool == {SHADING_SEQUENCES[k] : k \in 1..Min2(MaxSequences, Len(SHADING_SEQUENCES))}

\* _section_fills_for_option(sequence, num_sections): the sequence cycled
_section_fills_for_option(sequence, num_sections) ==
    LET parts == IF sequence = << >> THEN <<"white", "grey">> ELSE sequence
    IN [i \in 1..num_sections |-> parts[((i - 1) % Len(parts)) + 1]]

\* tuple(sorted(Counter(indices).values(), reverse=True)) in allowed_5, for
\* the three values of num_sections
CountsAllowed(ns) ==
    LET counts == {<<v, CountOf(ns, v)>> : v \in Range(NUM_SECTIONS_POOL)}
        present == {c \in counts : c[2] > 0}
    IN \E k \in DOMAIN ALLOWED_SPLITS[N_OPTIONS] :
          LET t == ALLOWED_SPLITS[N_OPTIONS][k]
          IN /\ \A i \in 1..(Len(t) - 1) : t[i] >= t[i + 1]
             /\ Len(t) = Cardinality(present)
             /\ \A m \in 1..N_OPTIONS :
                   Cardinality({c \in present : c[2] = m})
                       = Cardinality({i \in DOMAIN t : t[i] = m})

InitSample ==
    /\ fn = "gen_question_template2"
    /\ pc = "start"
    /\ shape \in {"circle", "square"}
    /\ diff_attr = "shading_sequence"
    /\ correct_idx = 0
    /\ option_partitions = << >>
    /\ option_num_sections = << >>
    /\ option_fills = << >>
    /\ question_data = << >>
    /\ option_sequences = << >>
    /\ SplitsIdle
    /\ CdpIdle
    /\ PartIdle
    /\ RenderIdle
    /\ RetryIdle
    /\ StackIdle
    /\ ArrayIdle
    /\ MeshIdle
    /\ PathIdle
    /\ BboxIdle
    /\ ClipIdle
    /\ FragIdle
    /\ PlaceIdle

SampleFrame ==
    UNCHANGED <<fn, shape, diff_attr, option_partitions, question_data, splitVars,
                cdpVars, placeVars, partVars, renderVars, retryVars, stackVars,
                arrayVars, meshVars, pathVars, bboxVars, clipVars, fragVars>>

\* _generate_options with shading_sequence as the differentiator: the odd
\* and the common sequence, the correct index, and a num_sections for every
\* option whose counts make an allowed split (the partition directions, drawn
\* the same way, are left out)
SampleGenerateOptions ==
    /\ fn = "gen_question_template2" /\ pc = "start"
    /\ \E correct_index \in 0..(N_OPTIONS - 1) :
       \E odd_val \in SequencePool :
       \E common_val \in SequencePool \ {odd_val} :
       \E ns \in [1..N_OPTIONS -> Range(NUM_SECTIONS_POOL)] :
          /\ CountsAllowed(ns)
          /\ correct_idx' = correct_index
          /\ option_sequences' = [i \in 1..N_OPTIONS |->
                                    IF i = correct_index + 1 THEN odd_val ELSE common_val]
          /\ option_num_sections' = ns
    /\ pc' = "generated"
    /\ UNCHANGED option_fills
    /\ SampleFrame

\* main: the section fills every option is drawn with
SampleRenderOptions ==
    /\ fn = "gen_question_template2" /\ pc = "generated"
    /\ option_fills' = [i \in 1..N_OPTIONS |->
                          _section_fills_for_option(option_sequences[i],
                                                    option_num_sections[i])]
    /\ pc' = "returned"
    /\ UNCHANGED <<correct_idx, option_sequences, option_num_sections>>
    /\ SampleFrame

NextSample == SampleGenerateOptions \/ SampleRenderOptions

SpecSample == InitSample /\ [][NextSample]_vars

\* C30 as stated: with shading_sequence as the differentiator, the fills the
\* correct option is drawn with differ from the fills the common sequence
\* gives at the correct option's number of sections.
Claim_C30_OddFillsDiffer ==
    (fn = "gen_question_template2" /\ pc = "returned") =>
        LET correct == correct_idx + 1
            common_val == option_sequences[IF correct = 1 THEN 2 ELSE 1]
        IN option_fills[correct]
              # _section_fills_for_option(common_val, option_num_sections[correct])

====
